---- MODULE Spec2Model ----
(***************************************************************************)
(* State-machine model of src/src/backtest_engine.py (run_backtest and    *)
(* its helpers).                                                           *)
(*                                                                         *)
(* Number representation.  The program computes with Python floats; the   *)
(* model computes with exact integers and rationals:                       *)
(*   - a price is an integer number of mills (1/1000 of a currency unit), *)
(*   - an un-rounded percentage is a normalised rational <<num, den>>,    *)
(*   - a value produced by round(x, 2) is an integer number of            *)
(*     hundredths, one produced by round(x, 1) an integer number of       *)
(*     tenths (round() rounds half to even),                               *)
(*   - a calendar date is a day number, a timedelta a number of days.     *)
(* Python's None is the empty tuple <<>>, a present value v is <<v>>.     *)
(***************************************************************************)
EXTENDS Integers, Sequences, FiniteSets, TLC

VARIABLES
    history_file,   \* logs/history.json: [exists, content]
    results_file,   \* logs/backtest_results.json: [exists, content]
    pc,             \* position of run_backtest
    exit_code,      \* process exit status (None while running)
    history,        \* local `history`
    eligible,       \* local `eligible`
    idx,            \* position of the `for entry in eligible` loop (1-based)
    trades,         \* local `trades`
    spy_returns,    \* local `spy_returns`
    entry_price,    \* local `entry_price`
    exit_price,     \* local `exit_price`
    pct_return,     \* local `pct_return` (un-rounded rational)
    won,            \* local `won`
    result,         \* local `result`, the value run_backtest returns
    calls,          \* fetch_close calls made so far, in order
    exit_answers,   \* what each exit-price call returned, in order
    polygon_key,    \* POLYGON_KEY is a non-empty string
    market,         \* closes the provider may answer with, per ticker
    recorder,       \* a recorder of the provider traffic is attached
    trace,          \* what the recorder saw of each fetch_close call
    seen,           \* what the dashboard last loaded from the results file
    lookup,         \* a fetch_close call against a provider with known bars
    memo,           \* the provider's answers so far, per (ticker, date), when
                    \* it answers equal requests equally
    first,          \* result and results file of an earlier run (None if none)
    opportunities_file, \* OPPORTUNITIES.md: [exists, lines]
    performance_file,   \* logs/performance.md: [exists, lines]
    dpc,            \* position of the dashboard's main
    line_no,        \* the line the running parser reads next
    in_table,       \* the running parser's in_table
    rows,           \* the running parser's rows
    opp,            \* what parse_opportunities returned, if it has
    perf            \* what parse_performance returned, if it has

\* the environment of one run: it does not change while the program runs
setting == <<polygon_key, market, recorder>>

vars == <<history_file, results_file, pc, exit_code, history, eligible, idx,
          trades, spy_returns, entry_price, exit_price, pct_return, won,
          result, calls, exit_answers, polygon_key, market, recorder, trace,
          seen, lookup, memo, first, opportunities_file, performance_file,
          dpc, line_no, in_table, rows, opp, perf>>

\* the state of one rendering of the dashboard
dashboard == <<opportunities_file, performance_file, dpc, line_no, in_table,
               rows, opp, perf>>

----------------------------------------------------------------------------
(* Python values *)

None == <<>>
Some(v) == <<v>>
IsNone(o) == o = <<>>
Val(o) == o[1]

----------------------------------------------------------------------------
(* Configuration, backtest_engine.py lines 45-48 *)

HOLD_DAYS == 21
MIN_AGE_DAYS == 5
BUY_ACTIONS == {"BUY", "EXPLOSIVE BUY", "GOLDEN TRADE"}

----------------------------------------------------------------------------
(* Bounds of the model *)

MaxHist == 2

\* date.today()
Today == 100

----------------------------------------------------------------------------
(* Arithmetic *)

Abs(x) == IF x < 0 THEN -x ELSE x

RECURSIVE Gcd(_, _)
Gcd(a, b) == IF b = 0 THEN a ELSE Gcd(b, a % b)

\* the rational n/d (d # 0) in lowest terms with a positive denominator
Rat(n, d) ==
    LET g == Gcd(Abs(n), Abs(d))
        s == IF d < 0 THEN -1 ELSE 1
    IN  <<(s * n) \div g, (s * d) \div g>>

RatAdd(p, q) == Rat(p[1] * q[2] + q[1] * p[2], p[2] * q[2])

\* round(n / d) to an integer, half to even (d > 0)
RoundHalfEven(n, d) ==
    LET q == n \div d
        r == n - q * d
    IN  IF 2 * r < d THEN q
        ELSE IF 2 * r > d THEN q + 1
        ELSE IF q % 2 = 0 THEN q ELSE q + 1

\* round(x, 2) of the rational x, in hundredths
Round2(x) == RoundHalfEven(x[1] * 100, x[2])

\* round(p, 2) of a price in mills, in hundredths
RoundPrice(p) == RoundHalfEven(p, 10)

RECURSIVE RatSum(_)
RatSum(s) == IF s = <<>> THEN <<0, 1>> ELSE RatAdd(Head(s), RatSum(Tail(s)))

----------------------------------------------------------------------------
(* Inputs: the event log and the provider's answers *)

Tickers == {"AAA"}

\* ages (today - date, in days) of the logged signals: around MIN_AGE_DAYS
\* and around the hold span
Ages == {MIN_AGE_DAYS - 1, MIN_AGE_DAYS,
         RoundHalfEven(HOLD_DAYS * 7, 5), RoundHalfEven(HOLD_DAYS * 7, 5) + 1}

Actions == {"BUY", "buy", "WATCH"}

\* logged prices, in mills: none, one unit
EntryPrices == {0, 1000}

\* logged prices that include one below half a cent
PennyPrices == {0, 4, 1000}

\* actions in upper case only
UpperActions == {"BUY", "WATCH"}

EntriesOf(actions, prices) ==
    [ticker : Tickers, date : {Today - a : a \in Ages},
     action : actions, price : prices]

RECURSIVE SeqsUpTo(_, _)
SeqsUpTo(S, n) ==
    IF n = 0 THEN {<<>>}
    ELSE LET shorter == SeqsUpTo(S, n - 1)
         IN  shorter \cup {Append(s, e) : s \in {t \in shorter : Len(t) = n - 1}, e \in S}

Histories == SeqsUpTo(EntriesOf(Actions, EntryPrices), MaxHist)

PennyHistories == SeqsUpTo(EntriesOf(UpperActions, PennyPrices), MaxHist)

\* a buy signal old enough to be evaluated, as the JSON object of the log: a
\* key the object lacks is absent from the record, a key holding null or a
\* non-numeric string is written key_raw
MalformedEntries ==
    LET d == Today - (RoundHalfEven(HOLD_DAYS * 7, 5) + 1)
    IN  {[ticker |-> "AAA", date |-> d, action |-> "BUY", price |-> 1000],
         [ticker |-> "AAA", date |-> d, action |-> "BUY", price |-> 1000,
          score |-> 80],
         [ticker |-> "AAA", date |-> d, action |-> "BUY", price |-> 1000,
          score_raw |-> "null"],
         [ticker |-> "AAA", date |-> d, action |-> "BUY", price |-> 1000,
          score_raw |-> "text"],
         [ticker |-> "AAA", date |-> d, action |-> "BUY"],
         [ticker |-> "AAA", date |-> d, action |-> "BUY", price_raw |-> "null"],
         [ticker |-> "AAA", date |-> d, action |-> "BUY", price_raw |-> "text"],
         [ticker |-> "AAA", date |-> d, price |-> 1000],
         [ticker |-> "AAA", action |-> "BUY", price |-> 1000],
         [date |-> d, action |-> "BUY", price |-> 1000]}

MalformedHistories == SeqsUpTo(MalformedEntries, MaxHist)

\* logs of buy signals at one price
\* buy signals logged at 40000 mills
NearHistories == SeqsUpTo(EntriesOf({"BUY"}, {40000}), MaxHist)

TraceHistories == SeqsUpTo(EntriesOf({"BUY"}, {1000}), MaxHist)

\* closes the provider may hold as the first bar of a window, in mills
FullMarket == [t \in Tickers \cup {"SPY"} |->
                 IF t = "SPY" THEN {0, 1000, 1100} ELSE {700, 900, 1000, 1200}]

\* a provider with few closes: a loss and a gain for a signal bought at 1000
SmallMarket == [t \in Tickers \cup {"SPY"} |->
                  IF t = "SPY" THEN {1000} ELSE {900, 1200}]

\* a provider whose closes are within a mill of a signal bought at 40000,
\* or well above it
NearMarket == [t \in Tickers \cup {"SPY"} |->
                 IF t = "SPY" THEN {1000} ELSE {39999, 40000, 40001, 44000}]

\* a provider that may answer a benchmark lookup with a close of 0
ZeroMarket == [t \in Tickers \cup {"SPY"} |->
                 IF t = "SPY" THEN {0, 1000} ELSE {900, 1200}]

Closes(ticker) == market[ticker]

\* what may happen to one request sent about `ticker`: a transport error
\* (requests.RequestException), or a reply with status 200 ("ok") or with
\* another status, whose body is reduced to the closes of its "results" bars
\* (absent or empty: <<>>)
Outcomes(ticker) ==
    {[kind |-> "error", results |-> <<>>]}
      \cup {[kind |-> k, results |-> r] :
               k \in {"ok", "status"},
               r \in {<<>>} \cup {<<c>> : c \in Closes(ticker)}}

\* a results file left by an earlier run
PriorSummary ==
    [generated_at |-> Today - 1, data_points |-> 0, win_rate |-> None,
     profit_factor |-> None, alpha_vs_spy |-> None, avg_return |-> None,
     trades |-> <<>>]

NoFile == [exists |-> FALSE, content |-> None]
File(c) == [exists |-> TRUE, content |-> Some(c)]

\* a file that exists and holds no complete JSON document
Truncated == [exists |-> TRUE, content |-> None]

----------------------------------------------------------------------------
(* Pure functions of backtest_engine.py *)

\* str.upper() on the action alphabet of the model
Upper(a) == IF a = "buy" THEN "BUY" ELSE a

\* _polygon_get without the test of the key (lines 55-57)
PolygonGetNoKeyTest(key, o) ==
    IF o.kind = "ok" THEN Some(o.results) ELSE None

\* _polygon_get without the test of the status code (line 62)
PolygonGetAnyStatus(key, o) ==
    IF ~key THEN None
    ELSE IF o.kind \in {"ok", "status"} THEN Some(o.results)
    ELSE None

\* _polygon_get, lines 53-68: None without a key, after a non-200 status and
\* after a transport error; the parsed JSON after a 200 reply
PolygonGet(key, o) ==
    IF ~key THEN None
    ELSE IF o.kind = "ok" THEN Some(o.results)
    ELSE None

\* what _polygon_get does on the way: the request and how it ended ("reply"
\* for a 200, "status" for any other status, "error" for a transport error),
\* and a "warn" for each [WARN] line printed
PolygonEvents(key, o) ==
    IF ~key THEN <<"warn">>
    ELSE IF o.kind = "ok" THEN <<"request", "reply">>
    ELSE IF o.kind = "status" THEN <<"request", "status", "warn">>
    ELSE <<"request", "error", "warn">>

\* what _polygon_get may return for a request about `ticker`
Responses(ticker) == {PolygonGet(polygon_key, o) : o \in Outcomes(ticker)}

\* fetch_close, lines 82-84: the close of the first bar, or None
FetchCloseResult(data) ==
    IF IsNone(data) \/ Val(data) = <<>> THEN None ELSE Some(Val(data)[1])

\* fetch_close, lines 71-84: what a call about `ticker` may return
FetchClose(ticker) == {FetchCloseResult(data) : data \in Responses(ticker)}

\* line 76 with a window of five days
WindowEndShort(target_date) == target_date + 5

\* line 76: the last day of the window searched for a bar
WindowEnd(target_date) == target_date + 10

\* the "limit" parameter of the request, line 79
AggsLimit == 5

\* the close of the daily bar of day d, one value per day
CloseOn(d) == 1000 + d

RECURSIVE SortAsc(_)
SortAsc(S) ==
    IF S = {} THEN <<>>
    ELSE LET m == CHOOSE x \in S : \A y \in S : x <= y
         IN  <<m>> \o SortAsc(S \ {m})

\* the provider's answer to the request of lines 77-80 when it holds daily
\* bars for the days `bars`: the bars dated from_date to to_date, oldest
\* first ("sort": "asc"), at most AggsLimit of them, reduced to their closes
PolygonAggs(bars, from_date, to_date) ==
    LET days == SortAsc({d \in bars : from_date <= d /\ d <= to_date})
        kept == SubSeq(days, 1, IF Len(days) < AggsLimit THEN Len(days) ELSE AggsLimit)
    IN  [n \in DOMAIN kept |-> CloseOn(kept[n])]

\* fetch_close with lines 81 and 82 exchanged: no pause when nothing usable
\* came back
FetchCloseEventsPauseLate(key, o) ==
    PolygonEvents(key, o)
      \o (IF IsNone(FetchCloseResult(PolygonGet(key, o))) THEN <<>> ELSE <<"sleep">>)

\* fetch_close, lines 77-81: the request is made, then the pause of
\* RATE_LIMIT_SLEEP is taken whatever came back
FetchCloseEvents(key, o) == PolygonEvents(key, o) \o <<"sleep">>

\* one fetch_close call about `ticker`: what it returns and, when a recorder
\* is attached, what it did
Fetches(ticker) ==
    {[result |-> FetchCloseResult(PolygonGet(polygon_key, o)),
      events |-> IF recorder THEN FetchCloseEvents(polygon_key, o) ELSE <<>>] :
        o \in Outcomes(ticker)}

\* trading_days_after without the 7/5 scaling to calendar days
trading_days_unscaled(signal_date, n) == signal_date + n

\* trading_days_after, lines 89-91
trading_days_after(signal_date, n) == signal_date + RoundHalfEven(n * 7, 5)

\* the filter without the test of the action
IsEligibleAnyAction(e) ==
    /\ (Today - e.date) >= MIN_AGE_DAYS
    /\ e.price > 0

\* the filter with the age test off by one (> for >=)
IsEligibleOlder(e) ==
    /\ Upper(e.action) \in BUY_ACTIONS
    /\ (Today - e.date) > MIN_AGE_DAYS
    /\ e.price > 0

\* a key of a JSON object holding a value of the type the program expects;
\* a key holding null or a non-numeric string is written key_raw
Has(e, key) == key \in DOMAIN e

\* e.get("action", ""), line 108
ActionOf(e) == IF Has(e, "action") THEN e.action ELSE ""

\* e.get("price", 0), line 110
PriceOf(e) == IF Has(e, "price") THEN e.price ELSE 0

\* the filter of lines 106-111 raises on e: `and` evaluates left to right
\* and stops at the first false condition, so e["date"] raises KeyError only
\* for a buy-class action and the comparison of a null or a string with 0
\* raises TypeError only when the action and age conditions hold
FilterRaises(e) ==
    /\ Upper(ActionOf(e)) \in BUY_ACTIONS
    /\ \/ ~Has(e, "date")
       \/ /\ (Today - e.date) >= MIN_AGE_DAYS
          /\ Has(e, "price_raw")

\* the filter of lines 106-111
IsEligible(e) ==
    /\ Upper(ActionOf(e)) \in BUY_ACTIONS
    /\ (Today - e.date) >= MIN_AGE_DAYS
    /\ PriceOf(e) > 0

\* the test of line 121 off by one (> for >=)
NotYetKnownLate(exit_date) == exit_date > Today

\* line 121: the outcome is not yet known
NotYetKnown(exit_date) == exit_date >= Today

\* line 130, as a rational
PctReturn(exit, entry) == Rat((exit - entry) * 100, entry)

\* line 131 with >= for >: a flat trade counts as won
WonOrFlat(pct) == pct[1] >= 0

\* line 131 testing the return as it is stored, rounded to two decimals
WonRounded(pct) == Round2(pct) > 0

\* line 131
Won(pct) == pct[1] > 0

\* line 136 taking a missing benchmark price for a benchmark return of 0
SpyReturnOrZero(se, sx) ==
    IF ~IsNone(se) /\ Val(se) # 0 /\ ~IsNone(sx) /\ Val(sx) # 0
    THEN Some(PctReturn(Val(sx), Val(se)))
    ELSE Some(<<0, 1>>)

\* line 136 giving a benchmark return of 0 when the benchmark entry price is 0
SpyReturnZeroForZero(se, sx) ==
    IF ~IsNone(se) /\ ~IsNone(sx) /\ Val(sx) # 0
    THEN IF Val(se) # 0 THEN Some(PctReturn(Val(sx), Val(se))) ELSE Some(<<0, 1>>)
    ELSE None

\* line 136: a price of 0 is falsy, as None is
SpyReturn(se, sx) ==
    IF ~IsNone(se) /\ Val(se) # 0 /\ ~IsNone(sx) /\ Val(sx) # 0
    THEN Some(PctReturn(Val(sx), Val(se)))
    ELSE None

\* lines 140-150
Trade(entry, entry_p, exit_p, exit_date, pct, spy_ret, w) ==
    [ticker |-> entry.ticker, date |-> entry.date, action |-> entry.action,
     entry_price |-> RoundPrice(entry_p), exit_price |-> RoundPrice(exit_p),
     exit_date |-> exit_date, pct_return |-> Round2(pct),
     spy_return |-> IF IsNone(spy_ret) THEN None ELSE Some(Round2(Val(spy_ret))),
     won |-> w]

----------------------------------------------------------------------------
(* Metrics, lines 152-188 *)

\* lines 168-169
Wins(ts) == SelectSeq(ts, LAMBDA t : t.won)
Losses(ts) == SelectSeq(ts, LAMBDA t : ~t.won)

RECURSIVE SumPct(_)
SumPct(ts) == IF ts = <<>> THEN 0 ELSE Head(ts).pct_return + SumPct(Tail(ts))

\* line 170 without the factor 100: a fraction, not a percentage
WinRateFraction(ts) == RoundHalfEven(Len(Wins(ts)) * 10, Len(ts))

\* line 170, in tenths
WinRate(ts) == RoundHalfEven(Len(Wins(ts)) * 100 * 10, Len(ts))

\* line 171, in hundredths
AvgReturn(ts) == RoundHalfEven(SumPct(ts), Len(ts))

\* lines 173-174 summed over all trades instead of the wins / the losses
GrossGainAll(ts) == SumPct(ts)

GrossLossAll(ts) == Abs(SumPct(ts))

\* lines 173-174, in hundredths
GrossGain(ts) == SumPct(Wins(ts))

GrossLoss(ts) == Abs(SumPct(Losses(ts)))

\* line 175, in hundredths
ProfitFactor(ts) ==
    IF GrossLoss(ts) > 0
    THEN Some(RoundHalfEven(GrossGain(ts) * 100, GrossLoss(ts)))
    ELSE None

\* line 177 dividing by the number of trades, not of benchmark returns
AvgSpyOverTrades(sr) ==
    IF sr # <<>>
    THEN LET total == RatSum(sr)
         IN  Some(Round2(Rat(total[1], total[2] * Len(trades))))
    ELSE None

\* line 177, in hundredths
AvgSpy(sr) ==
    IF sr # <<>>
    THEN LET total == RatSum(sr)
         IN  Some(Round2(Rat(total[1], total[2] * Len(sr))))
    ELSE None

\* line 178, in hundredths
Alpha(avg_return, avg_spy) ==
    IF ~IsNone(avg_spy) THEN Some(avg_return - Val(avg_spy)) ELSE None

\* lines 154-162 with 0 in place of None for the two averages
EmptySummaryZero ==
    [generated_at |-> Today, data_points |-> 0, win_rate |-> Some(0),
     profit_factor |-> None, alpha_vs_spy |-> None, avg_return |-> Some(0),
     trades |-> <<>>]

\* lines 154-162
EmptySummary ==
    [generated_at |-> Today, data_points |-> 0, win_rate |-> None,
     profit_factor |-> None, alpha_vs_spy |-> None, avg_return |-> None,
     trades |-> <<>>]

\* lines 180-188
FullSummary(ts, sr) ==
    [generated_at |-> Today, data_points |-> Len(ts),
     win_rate |-> Some(WinRate(ts)),
     profit_factor |-> ProfitFactor(ts),
     alpha_vs_spy |-> Alpha(AvgReturn(ts), AvgSpy(sr)),
     avg_return |-> Some(AvgReturn(ts)),
     trades |-> ts]

\* lines 152-188
Summary(ts, sr) == IF ts = <<>> THEN EmptySummary ELSE FullSummary(ts, sr)

----------------------------------------------------------------------------
(* dashboard.py: text of the reports, lines 355-374 and 407-428 *)

MaxLines == 4

Digits == {"0", "1", "2", "3", "4", "5", "6", "7", "8", "9"}

Whitespace == {" "}

Char(s, i) == SubSeq(s, i, i)

RECURSIVE LStrip(_, _)
LStrip(s, chars) ==
    IF Len(s) > 0 /\ Char(s, 1) \in chars THEN LStrip(Tail(s), chars) ELSE s

RECURSIVE RStrip(_, _)
RStrip(s, chars) ==
    IF Len(s) > 0 /\ Char(s, Len(s)) \in chars
    THEN RStrip(SubSeq(s, 1, Len(s) - 1), chars)
    ELSE s

\* str.strip(chars)
Strip(s, chars) == RStrip(LStrip(s, chars), chars)

\* sub in s
Contains(s, sub) ==
    \E i \in 1..(Len(s) - Len(sub) + 1) : SubSeq(s, i, i + Len(sub) - 1) = sub

\* s.startswith(prefix)
StartsWith(s, prefix) ==
    Len(s) >= Len(prefix) /\ SubSeq(s, 1, Len(prefix)) = prefix

\* s.split(d) for a one-character d
RECURSIVE Split(_, _)
Split(s, d) ==
    IF \E i \in 1..Len(s) : Char(s, i) = d
    THEN LET i == CHOOSE k \in 1..Len(s) :
                    /\ Char(s, k) = d
                    /\ \A j \in 1..(k - 1) : Char(s, j) # d
         IN  <<SubSeq(s, 1, i - 1)>> \o Split(SubSeq(s, i + 1, Len(s)), d)
    ELSE <<s>>

\* re.sub(r"[^...]", "", s): the characters of s that are in chars
RECURSIVE Keep(_, _)
Keep(s, chars) ==
    IF Len(s) = 0 THEN ""
    ELSE (IF Char(s, 1) \in chars THEN Char(s, 1) ELSE "") \o Keep(Tail(s), chars)

\* re.sub(r"[...]+", "", s): the characters of s that are not in chars
RECURSIVE Drop(_, _)
Drop(s, chars) ==
    IF Len(s) = 0 THEN ""
    ELSE (IF Char(s, 1) \in chars THEN "" ELSE Char(s, 1)) \o Drop(Tail(s), chars)

DigitValue(c) ==
    CASE c = "0" -> 0 [] c = "1" -> 1 [] c = "2" -> 2 [] c = "3" -> 3
      [] c = "4" -> 4 [] c = "5" -> 5 [] c = "6" -> 6 [] c = "7" -> 7
      [] c = "8" -> 8 [] c = "9" -> 9

IsDigits(s) == Len(s) > 0 /\ \A i \in 1..Len(s) : Char(s, i) \in Digits

RECURSIVE DigitsValue(_)
DigitsValue(s) ==
    IF Len(s) = 0 THEN 0
    ELSE 10 * DigitsValue(SubSeq(s, 1, Len(s) - 1)) + DigitValue(Char(s, Len(s)))

RECURSIVE Pow10(_)
Pow10(n) == IF n = 0 THEN 1 ELSE 10 * Pow10(n - 1)

\* what a conversion gives: a value, or ValueError
Value(v) == [raised |-> FALSE, value |-> <<v>>]
ValueError == [raised |-> TRUE, value |-> <<>>]

\* int(s) for an s of digits and '-' only: a literal is digits after at most
\* one leading '-'
int(s) ==
    IF IsDigits(s) THEN Value(DigitsValue(s))
    ELSE IF StartsWith(s, "-") /\ IsDigits(Tail(s)) THEN Value(0 - DigitsValue(Tail(s)))
    ELSE ValueError

\* float(s) for an s of an optional sign, digits and '.': a literal has at
\* least one digit and at most one '.'; the value is <<n, d>> for n / d, d the
\* power of ten of the decimals written
float(s) ==
    LET signed == Len(s) > 0 /\ Char(s, 1) \in {"+", "-"}
        body == IF signed THEN Tail(s) ELSE s
        parts == Split(body, ".")
        n == DigitsValue(Drop(body, {"."}))
    IN  IF Len(parts) <= 2 /\ Len(Drop(body, {"."})) > 0
        THEN Value(<<IF signed /\ Char(s, 1) = "-" THEN 0 - n ELSE n,
                     IF Len(parts) = 2 THEN Pow10(Len(parts[2])) ELSE 1>>)
        ELSE ValueError

\* lines 370 and 374: "Score"
Score(cell) ==
    LET score_raw == Keep(cell, Digits \cup {"-"})
    IN  IF score_raw # "" THEN int(score_raw) ELSE Value(0)

\* the end of the longest run of digits and '.' that starts at i (i - 1 when
\* there is none)
RECURSIVE RunEnd(_, _)
RunEnd(s, i) ==
    IF i <= Len(s) /\ Char(s, i) \in Digits \cup {"."} THEN RunEnd(s, i + 1)
    ELSE i - 1

\* where the number of a match of ([+-]?[\d.]+)% that starts at i begins
NumberStart(s, i) == IF Char(s, i) \in {"+", "-"} THEN i + 1 ELSE i

\* ([+-]?[\d.]+)% matches at i
MatchesAt(s, i) ==
    LET e == RunEnd(s, NumberStart(s, i))
    IN  e >= NumberStart(s, i) /\ e < Len(s) /\ Char(s, e + 1) = "%"

\* line 422: group 1 of re.search(r"([+-]?[\d.]+)%", cell), None without match
pct_raw(cell) ==
    IF \E i \in 1..Len(cell) : MatchesAt(cell, i)
    THEN LET i == CHOOSE k \in 1..Len(cell) :
                    /\ MatchesAt(cell, k)
                    /\ \A j \in 1..(k - 1) : ~MatchesAt(cell, j)
         IN  Some(SubSeq(cell, i, RunEnd(cell, NumberStart(cell, i))))
    ELSE None

\* lines 422 and 427: "pct_change"
PctChange(cell) ==
    IF IsNone(pct_raw(cell)) THEN Value(<<0, 1>>) ELSE float(Val(pct_raw(cell)))

\* lines 357 and 409
IsHeader(parser, line) ==
    /\ Contains(line, "| Ticker |")
    /\ Contains(line, IF parser = "parse_opportunities" THEN "Sector ETF"
                      ELSE "Return %")

\* lines 362 and 414: re.match(r"^\|\s*-+", line)
IsSeparatorRule(line) ==
    StartsWith(line, "|") /\ StartsWith(LStrip(Tail(line), Whitespace), "-")

\* lines 367 and 419
Cells(line) ==
    LET parts == Split(Strip(line, {"|"}), "|")
    IN  [i \in DOMAIN parts |-> Strip(parts[i], Whitespace)]

\* lines 368 and 420
MinCells(parser) == IF parser = "parse_opportunities" THEN 10 ELSE 8

\* str.upper() on the letters of the model's Win? cells
UpperChar(c) ==
    CASE c = "y" -> "Y" [] c = "e" -> "E" [] c = "s" -> "S" [] c = "n" -> "N"
      [] c = "o" -> "O" [] OTHER -> c

RECURSIVE UpperText(_)
UpperText(s) ==
    IF Len(s) = 0 THEN "" ELSE UpperChar(Char(s, 1)) \o UpperText(Tail(s))

\* lines 371-380 and 423-429: the record of a row, the number in `number`
Row(parser, cells, number) ==
    IF parser = "parse_opportunities"
    THEN [Ticker |-> cells[1], Action |-> Strip(Drop(cells[3], {"*"}), Whitespace),
          Score |-> number, Sector_ETF |-> cells[2], Certainty |-> cells[5],
          EPS_Surprise |-> cells[6], RS_1d |-> cells[7], Stop_Loss |-> cells[10]]
    ELSE [ticker |-> cells[1], date |-> cells[2], action |-> cells[3],
          pct_change |-> number, win |-> UpperText(cells[8]) = "YES"]

\* lines 370-374 and 422-427: the number of a row
Number(parser, cells) ==
    IF parser = "parse_opportunities" THEN Score(cells[4]) ELSE PctChange(cells[7])

\* lines 356-380 ending the table at a row with too few cells
ReadShortRowEndsTable(parser, text_line, state) ==
    LET line == Strip(text_line, Whitespace)
        cells == Cells(line)
    IN  IF IsHeader(parser, line) THEN [state EXCEPT !.in_table = TRUE]
        ELSE IF ~state.in_table THEN state
        ELSE IF IsSeparatorRule(line) THEN state
        ELSE IF ~StartsWith(line, "|") THEN [state EXCEPT !.in_table = FALSE]
        ELSE IF Len(cells) < MinCells(parser) THEN [state EXCEPT !.in_table = FALSE]
        ELSE IF Number(parser, cells).raised THEN [state EXCEPT !.raised = TRUE]
        ELSE [state EXCEPT !.rows = Append(@, Row(parser, cells,
                                           Val(Number(parser, cells).value)))]

\* lines 356-380 reading rows whether in the table or not
ReadAlwaysInTable(parser, text_line, state) ==
    LET line == Strip(text_line, Whitespace)
        cells == Cells(line)
    IN  IF IsHeader(parser, line) THEN [state EXCEPT !.in_table = TRUE]
        ELSE IF IsSeparatorRule(line) THEN state
        ELSE IF ~StartsWith(line, "|") THEN [state EXCEPT !.in_table = FALSE]
        ELSE IF Len(cells) < MinCells(parser) THEN state
        ELSE IF Number(parser, cells).raised THEN [state EXCEPT !.raised = TRUE]
        ELSE [state EXCEPT !.rows = Append(@, Row(parser, cells,
                                           Val(Number(parser, cells).value)))]

\* lines 356-380 and 408-429: one turn of `for line in text.splitlines()`,
\* state = [in_table, rows, raised]
Read(parser, text_line, state) ==
    LET line == Strip(text_line, Whitespace)
        cells == Cells(line)
    IN  IF IsHeader(parser, line) THEN [state EXCEPT !.in_table = TRUE]
        ELSE IF ~state.in_table THEN state
        ELSE IF IsSeparatorRule(line) THEN state
        ELSE IF ~StartsWith(line, "|") THEN [state EXCEPT !.in_table = FALSE]
        ELSE IF Len(cells) < MinCells(parser) THEN state
        ELSE IF Number(parser, cells).raised THEN [state EXCEPT !.raised = TRUE]
        ELSE [state EXCEPT !.rows = Append(@, Row(parser, cells,
                                           Val(Number(parser, cells).value)))]

\* lines of a scan report
OpportunityLines ==
    {"| Ticker | Sector ETF |",
     "|-|-|-|-|-|-|-|-|-|-|",
     "|AAA|XLK|**BUY**|85|c|e|r|p|q|s|",
     " | BBB | XLE | SELL | -3 | c | e | r | p | q | s |",
     "|CCC|XLK|BUY|",
     "Notes",
     "|DDD|XLF|BUY|-|c|e|r|p|q|s|"}

\* lines of a performance report
PerformanceLines ==
    {"| Ticker | Return % |",
     "|-|-|-|-|-|-|-|-|",
     "|AAA|d|BUY|85|1|2|+5.0%|YES|",
     " | BBB | d | SELL | 40 | 1 | 2 | -1.5% | no |",
     "|CCC|d|BUY|",
     "Notes",
     "|DDD|d|BUY|70|1|2|1.2.3%|NO|"}

Texts(lines) == UNION {[1..n -> lines] : n \in 0..MaxLines}

Absent == [exists |-> FALSE, lines |-> <<>>]
Report(lines) == [exists |-> TRUE, lines |-> lines]

\* the dashboard is not running
DashboardIdle ==
    /\ opportunities_file = Absent
    /\ performance_file = Absent
    /\ dpc = "idle"
    /\ line_no = 1
    /\ in_table = FALSE
    /\ rows = <<>>
    /\ opp = None
    /\ perf = None

----------------------------------------------------------------------------
(* run_backtest, lines 94-198 *)

InitRun(histories, olds, keys, mkt, rec, same) ==
    /\ history_file \in {NoFile} \cup {File(h) : h \in histories}
    /\ results_file \in olds
    /\ pc = "start"
    /\ exit_code = None
    /\ history = <<>>
    /\ eligible = <<>>
    /\ idx = 1
    /\ trades = <<>>
    /\ spy_returns = <<>>
    /\ entry_price = None
    /\ exit_price = None
    /\ pct_return = None
    /\ won = None
    /\ result = None
    /\ calls = <<>>
    /\ exit_answers = <<>>
    /\ polygon_key \in keys
    /\ market = mkt
    /\ recorder = rec
    /\ trace = <<>>
    /\ seen = None
    /\ lookup = None
    /\ memo = [on |-> same, known |-> {}]
    /\ first = None
    /\ DashboardIdle

\* a run with a key, against the full provider, nobody watching
InitWith(histories) ==
    InitRun(histories, {NoFile, File(PriorSummary)}, {TRUE}, FullMarket, FALSE,
            FALSE)

\* the entry of the current iteration and its dates, lines 116-119
Entry == eligible[idx]
SignalDate == Entry.date
ExitDate == trading_days_after(SignalDate, HOLD_DAYS)

\* a fetch_close(ticker, target_date) call made for the current entry
Call(ticker, target_date) == [ticker |-> ticker, date |-> target_date, idx |-> idx]

\* the answer f the provider gave to the request about (ticker, date)
Answer(ticker, target_date, f) ==
    [ticker |-> ticker, date |-> target_date, answer |-> f]

\* one fetch_close(ticker, target_date) call: any of Fetches(ticker), but,
\* against a provider that answers equal requests equally, the answer it
\* gave before to the same request
FetchesAt(ticker, target_date) ==
    LET before == {m \in memo.known : m.ticker = ticker /\ m.date = target_date}
    IN  IF memo.on /\ before # {} THEN {m.answer : m \in before}
        ELSE Fetches(ticker)

\* the provider's answers with the new ones added
Remembered(answers) ==
    IF memo.on THEN [memo EXCEPT !.known = @ \cup answers] ELSE memo

\* what the recorder, when attached, adds to the trace for one call
Recorded(call, f) ==
    IF recorder
    THEN <<[call |-> call, events |-> f.events, result |-> f.result]>>
    ELSE <<>>

\* lines 95-97 taking an absent event log for an empty one
MissingHistoryAsEmpty ==
    /\ pc = "start"
    /\ ~history_file.exists
    /\ history' = <<>>
    /\ eligible' = <<>>
    /\ pc' = "loop"
    /\ UNCHANGED <<history_file, results_file, exit_code, idx, trades,
                   spy_returns, entry_price, exit_price, pct_return, won,
                   result, calls, exit_answers, setting, trace, seen, lookup,
                   memo, first, dashboard>>

\* lines 95-97: the event log is absent, sys.exit(1)
MissingHistory ==
    /\ pc = "start"
    /\ ~history_file.exists
    /\ pc' = "exited"
    /\ exit_code' = Some(1)
    /\ UNCHANGED <<history_file, results_file, history, eligible, idx, trades,
                   spy_returns, entry_price, exit_price, pct_return, won,
                   result, calls, exit_answers, setting, trace, seen, lookup,
                   memo, first, dashboard>>

\* lines 99-113: load the log and filter it; an exception raised by the
\* filter is caught nowhere and ends the process with status 1
LoadHistory ==
    /\ pc = "start"
    /\ history_file.exists
    /\ history' = Val(history_file.content)
    /\ trades' = <<>>
    /\ spy_returns' = <<>>
    /\ idx' = 1
    /\ IF \E i \in DOMAIN history' : FilterRaises(history'[i])
       THEN /\ pc' = "raised"
            /\ exit_code' = Some(1)
            /\ eligible' = eligible
       ELSE /\ eligible' = SelectSeq(history', IsEligible)
            /\ pc' = "loop"
            /\ exit_code' = exit_code
    /\ UNCHANGED <<history_file, results_file, entry_price, exit_price,
                   pct_return, won, result, calls, exit_answers, setting,
                   trace, seen, lookup, memo, first, dashboard>>

\* lines 115-122 not moving on from an entry whose exit date has not passed
NextEntryStaying ==
    /\ pc = "loop"
    /\ idx <= Len(eligible)
    /\ IF ~Has(Entry, "ticker")
       THEN /\ pc' = "raised"
            /\ exit_code' = Some(1)
            /\ UNCHANGED <<entry_price, idx>>
       ELSE /\ entry_price' = Some(Entry.price)
            /\ exit_code' = exit_code
            /\ IF NotYetKnown(ExitDate)
               THEN idx' = idx /\ pc' = "loop"
               ELSE idx' = idx /\ pc' = "fetch_exit"
    /\ UNCHANGED <<history_file, results_file, history, eligible, trades,
                   spy_returns, exit_price, pct_return, won, result, calls,
                   exit_answers, setting, trace, seen, lookup, memo, first, dashboard>>

\* lines 115-122: the next entry; skip it when its exit date has not passed;
\* entry["ticker"] raises KeyError when the record has no ticker
NextEntry ==
    /\ pc = "loop"
    /\ idx <= Len(eligible)
    /\ IF ~Has(Entry, "ticker")
       THEN /\ pc' = "raised"
            /\ exit_code' = Some(1)
            /\ UNCHANGED <<entry_price, idx>>
       ELSE /\ entry_price' = Some(Entry.price)
            /\ exit_code' = exit_code
            /\ IF NotYetKnown(ExitDate)
               THEN idx' = idx + 1 /\ pc' = "loop"
               ELSE idx' = idx /\ pc' = "fetch_exit"
    /\ UNCHANGED <<history_file, results_file, history, eligible, trades,
                   spy_returns, exit_price, pct_return, won, result, calls,
                   exit_answers, setting, trace, seen, lookup, memo, first, dashboard>>

\* lines 124-131 asking a second time when the first answer is None
FetchExitRetry ==
    /\ pc = "fetch_exit"
    /\ \E f \in FetchesAt(Entry.ticker, ExitDate) :
         /\ exit_price' = f.result
         /\ memo' = Remembered({Answer(Entry.ticker, ExitDate, f)})
         /\ calls' = Append(calls, Call(Entry.ticker, ExitDate))
         /\ trace' = trace \o Recorded(Call(Entry.ticker, ExitDate), f)
         /\ exit_answers' = Append(exit_answers, [idx |-> idx, close |-> f.result])
         /\ IF IsNone(exit_price')
            THEN /\ idx' = IF \E k \in DOMAIN calls : calls[k].idx = idx
                           THEN idx + 1 ELSE idx
                 /\ pc' = IF idx' = idx THEN "fetch_exit" ELSE "loop"
                 /\ UNCHANGED <<pct_return, won>>
            ELSE /\ pct_return' = Some(PctReturn(Val(exit_price'), Val(entry_price)))
                 /\ won' = Some(Won(Val(pct_return')))
                 /\ idx' = idx
                 /\ pc' = "benchmark"
    /\ UNCHANGED <<history_file, results_file, exit_code, history, eligible,
                   trades, spy_returns, entry_price, result, setting, seen,
                   lookup, first, dashboard>>

\* lines 124-131: the exit price; skip the entry when it is not resolved
FetchExit ==
    /\ pc = "fetch_exit"
    /\ \E f \in FetchesAt(Entry.ticker, ExitDate) :
         /\ exit_price' = f.result
         /\ memo' = Remembered({Answer(Entry.ticker, ExitDate, f)})
         /\ calls' = Append(calls, Call(Entry.ticker, ExitDate))
         /\ trace' = trace \o Recorded(Call(Entry.ticker, ExitDate), f)
         /\ exit_answers' = Append(exit_answers, [idx |-> idx, close |-> f.result])
         /\ IF IsNone(exit_price')
            THEN /\ idx' = idx + 1
                 /\ pc' = "loop"
                 /\ UNCHANGED <<pct_return, won>>
            ELSE /\ pct_return' = Some(PctReturn(Val(exit_price'), Val(entry_price)))
                 /\ won' = Some(Won(Val(pct_return')))
                 /\ idx' = idx
                 /\ pc' = "benchmark"
    /\ UNCHANGED <<history_file, results_file, exit_code, history, eligible,
                   trades, spy_returns, entry_price, result, setting, seen,
                   lookup, first, dashboard>>

\* lines 133-150 asking the provider for the benchmark's exit price twice
BenchmarkAskingTwice ==
    /\ pc = "benchmark"
    /\ \E fe \in FetchesAt("SPY", SignalDate), fx \in FetchesAt("SPY", ExitDate) :
         LET spy_entry == fe.result
             spy_exit == fx.result
             spy_return == SpyReturn(spy_entry, spy_exit)
         IN  /\ memo' = Remembered({Answer("SPY", SignalDate, fe),
                                    Answer("SPY", ExitDate, fx)})
             /\ calls' = calls \o <<Call("SPY", SignalDate), Call("SPY", ExitDate),
                                    Call("SPY", ExitDate)>>
             /\ trace' = trace \o Recorded(Call("SPY", SignalDate), fe)
                               \o Recorded(Call("SPY", ExitDate), fx)
                               \o Recorded(Call("SPY", ExitDate), fx)
             /\ spy_returns' = IF IsNone(spy_return) THEN spy_returns
                               ELSE Append(spy_returns, Val(spy_return))
             /\ trades' = Append(trades,
                                 Trade(Entry, Val(entry_price), Val(exit_price),
                                       ExitDate, Val(pct_return), spy_return,
                                       Val(won)))
    /\ idx' = idx + 1
    /\ pc' = "loop"
    /\ UNCHANGED <<history_file, results_file, exit_code, history, eligible,
                   entry_price, exit_price, pct_return, won, result,
                   exit_answers, setting, seen, lookup, first, dashboard>>

\* lines 133-150: the benchmark's entry and exit prices (two fetch_close
\* calls, one after the other), then the trade is recorded
Benchmark ==
    /\ pc = "benchmark"
    /\ \E fe \in FetchesAt("SPY", SignalDate), fx \in FetchesAt("SPY", ExitDate) :
         LET spy_entry == fe.result
             spy_exit == fx.result
             spy_return == SpyReturn(spy_entry, spy_exit)
         IN  /\ memo' = Remembered({Answer("SPY", SignalDate, fe),
                                    Answer("SPY", ExitDate, fx)})
             /\ calls' = calls \o <<Call("SPY", SignalDate), Call("SPY", ExitDate)>>
             /\ trace' = trace \o Recorded(Call("SPY", SignalDate), fe)
                               \o Recorded(Call("SPY", ExitDate), fx)
             /\ spy_returns' = IF IsNone(spy_return) THEN spy_returns
                               ELSE Append(spy_returns, Val(spy_return))
             /\ trades' = Append(trades,
                                 Trade(Entry, Val(entry_price), Val(exit_price),
                                       ExitDate, Val(pct_return), spy_return,
                                       Val(won)))
    /\ idx' = idx + 1
    /\ pc' = "loop"
    /\ UNCHANGED <<history_file, results_file, exit_code, history, eligible,
                   entry_price, exit_price, pct_return, won, result,
                   exit_answers, setting, seen, lookup, first, dashboard>>

\* lines 152-190 with the trades of the results file already on disk put in
\* front of the new ones
FinishMerging ==
    /\ pc = "loop"
    /\ idx > Len(eligible)
    /\ LET old == IF results_file.exists /\ ~IsNone(results_file.content)
                  THEN Val(results_file.content).trades ELSE <<>>
       IN  result' = Some(Summary(old \o trades, spy_returns))
    /\ results_file' = Truncated
    /\ pc' = "write"
    /\ UNCHANGED <<history_file, exit_code, history, eligible, idx, trades,
                   spy_returns, entry_price, exit_price, pct_return, won,
                   calls, exit_answers, setting, trace, seen, lookup, memo,
                   first, dashboard>>

\* lines 152-190 returning the empty summary without writing it
FinishEmptyUnwritten ==
    /\ pc = "loop"
    /\ idx > Len(eligible)
    /\ result' = Some(Summary(trades, spy_returns))
    /\ results_file' = IF trades = <<>> THEN results_file ELSE Truncated
    /\ pc' = IF trades = <<>> THEN "done" ELSE "write"
    /\ UNCHANGED <<history_file, exit_code, history, eligible, idx, trades,
                   spy_returns, entry_price, exit_price, pct_return, won,
                   calls, exit_answers, setting, trace, seen, lookup,
                   memo, first, dashboard>>

\* lines 152-190 and _write, lines 201-203: the summary is built and the
\* results file is opened in mode "w", which creates it or cuts it to length 0
Finish ==
    /\ pc = "loop"
    /\ idx > Len(eligible)
    /\ result' = Some(Summary(trades, spy_returns))
    /\ results_file' = Truncated
    /\ pc' = "write"
    /\ UNCHANGED <<history_file, exit_code, history, eligible, idx, trades,
                   spy_returns, entry_price, exit_price, pct_return, won,
                   calls, exit_answers, setting, trace, seen, lookup,
                   memo, first, dashboard>>

\* _write, lines 204-205, and line 198: the summary is dumped, the file is
\* closed and the summary is returned
WriteResults ==
    /\ pc = "write"
    /\ results_file' = File(Val(result))
    /\ pc' = "done"
    /\ UNCHANGED <<history_file, exit_code, history, eligible, idx, trades,
                   spy_returns, entry_price, exit_price, pct_return, won,
                   result, calls, exit_answers, setting, trace, seen, lookup,
                   memo, first, dashboard>>

Next ==
    \/ MissingHistory
    \/ LoadHistory
    \/ NextEntry
    \/ FetchExit
    \/ Benchmark
    \/ Finish
    \/ WriteResults

Init == InitWith(Histories)

Spec == Init /\ [][Next]_vars

\* the same program on logs that hold sub-cent prices
InitPenny == InitWith(PennyHistories)

SpecPenny == InitPenny /\ [][Next]_vars

\* the same program on signals whose exit price is within a mill of the
\* entry price
InitNear ==
    InitRun(NearHistories, {File(PriorSummary)}, {TRUE}, NearMarket, FALSE,
            FALSE)

SpecNear == InitNear /\ [][Next]_vars

\* the same program, watched, against a provider with benchmark closes of 0
InitZero ==
    InitRun(TraceHistories, {File(PriorSummary)}, {TRUE}, ZeroMarket, TRUE,
            FALSE)

SpecZero == InitZero /\ [][Next]_vars

\* the program is single-threaded and every call of it returns (requests.get
\* has a timeout, line 60), so a step that can be taken is taken
InitFair ==
    InitRun(TraceHistories, {File(PriorSummary)}, {TRUE}, SmallMarket, FALSE,
            FALSE)

SpecFair == InitFair /\ [][Next]_vars /\ WF_vars(Next)

\* the same program on logs whose records lack keys or hold null or text
\* where a number is expected
InitMalformed ==
    InitRun(MalformedHistories, {NoFile, File(PriorSummary)}, {TRUE},
            SmallMarket, FALSE, FALSE)

SpecMalformed == InitMalformed /\ [][Next]_vars

\* the same program with or without a key, the provider traffic recorded,
\* an earlier results file in place
InitTrace ==
    InitRun(TraceHistories, {File(PriorSummary)}, BOOLEAN, SmallMarket, TRUE,
            FALSE)

SpecTrace == InitTrace /\ [][Next]_vars

----------------------------------------------------------------------------
(* The dashboard reading the results file while the program runs *)

\* the empty dict {}
EmptyDict == [empty |-> TRUE]

\* dashboard.py load_backtest_results, lines 434-443: {} when the file is
\* absent or does not hold a JSON document, else the document
load_backtest_results(file) ==
    IF ~file.exists THEN EmptyDict
    ELSE IF IsNone(file.content) THEN EmptyDict
    ELSE Val(file.content)

\* the dashboard loads the results file, at any moment
ReadResults ==
    /\ seen' = Some([file |-> results_file,
                     loaded |-> load_backtest_results(results_file)])
    /\ UNCHANGED <<history_file, results_file, pc, exit_code, history,
                   eligible, idx, trades, spy_returns, entry_price,
                   exit_price, pct_return, won, result, calls, exit_answers,
                   setting, trace, lookup, memo, first, dashboard>>

NextReader ==
    \/ MissingHistory
    \/ LoadHistory
    \/ NextEntry
    \/ FetchExit
    \/ Benchmark
    \/ Finish
    \/ WriteResults
    \/ ReadResults

InitReader ==
    InitRun(TraceHistories, {NoFile, File(PriorSummary)}, {TRUE}, SmallMarket,
            FALSE, FALSE)

SpecReader == InitReader /\ [][NextReader]_vars

----------------------------------------------------------------------------
(* run_backtest run twice on the same inputs *)

\* the program is started again after a finished run: same event log, same
\* today, the results file as the first run left it, the locals fresh
RunAgain ==
    /\ pc = "done"
    /\ IsNone(first)
    /\ first' = Some([result |-> Val(result), file |-> results_file])
    /\ pc' = "start"
    /\ history' = <<>>
    /\ eligible' = <<>>
    /\ idx' = 1
    /\ trades' = <<>>
    /\ spy_returns' = <<>>
    /\ entry_price' = None
    /\ exit_price' = None
    /\ pct_return' = None
    /\ won' = None
    /\ result' = None
    /\ calls' = <<>>
    /\ exit_answers' = <<>>
    /\ UNCHANGED <<history_file, results_file, exit_code, setting, trace,
                   seen, lookup, memo, dashboard>>

NextTwice ==
    \/ MissingHistory
    \/ LoadHistory
    \/ NextEntry
    \/ FetchExit
    \/ Benchmark
    \/ Finish
    \/ WriteResults
    \/ RunAgain

\* the provider answers equal requests equally
InitTwice ==
    InitRun(TraceHistories, {NoFile, File(PriorSummary)}, {TRUE}, SmallMarket,
            FALSE, TRUE)

SpecTwice == InitTwice /\ [][NextTwice]_vars

----------------------------------------------------------------------------
(* fetch_close against a provider whose bars are known, lines 71-84 *)

\* the target date of the call
Target == Today - 30

\* days on which the provider may hold a bar: around the target date and
\* around the end of the window
BarDays == {Target - 1, Target, Target + 1, Target + 9, Target + 10, Target + 11}

InitWindow ==
    /\ history_file = NoFile
    /\ results_file = NoFile
    /\ pc = "lookup"
    /\ exit_code = None
    /\ history = <<>>
    /\ eligible = <<>>
    /\ idx = 1
    /\ trades = <<>>
    /\ spy_returns = <<>>
    /\ entry_price = None
    /\ exit_price = None
    /\ pct_return = None
    /\ won = None
    /\ result = None
    /\ calls = <<>>
    /\ exit_answers = <<>>
    /\ polygon_key \in BOOLEAN
    /\ market = FullMarket
    /\ recorder = FALSE
    /\ trace = <<>>
    /\ seen = None
    /\ lookup \in [target : {Target}, bars : SUBSET BarDays, kind : {"none"},
                    close : {None}]
    /\ memo = [on |-> FALSE, known |-> {}]
    /\ first = None
    /\ DashboardIdle

\* one fetch_close(ticker, target) call: the request for the window is sent
\* (when there is a key), ends in one of the three ways, and the close of
\* the first bar of the answer, if any, is returned
LookupClose ==
    /\ pc = "lookup"
    /\ \E kind \in {"ok", "status", "error"} :
         LET window_end == WindowEnd(lookup.target)
             body == IF kind = "error" THEN <<>>
                     ELSE PolygonAggs(lookup.bars, lookup.target, window_end)
             data == PolygonGet(polygon_key, [kind |-> kind, results |-> body])
         IN  lookup' = [lookup EXCEPT
                          !.kind = IF polygon_key THEN kind ELSE "unsent",
                          !.close = FetchCloseResult(data)]
    /\ pc' = "returned"
    /\ UNCHANGED <<history_file, results_file, exit_code, history, eligible,
                   idx, trades, spy_returns, entry_price, exit_price,
                   pct_return, won, result, calls, exit_answers, setting,
                   trace, seen, memo, first, dashboard>>

NextWindow == LookupClose

SpecWindow == InitWindow /\ [][NextWindow]_vars

----------------------------------------------------------------------------
(* dashboard.py main, lines 1047-1048: the two report parsers *)

\* the unchanged state of the backtest engine
engine == <<history_file, results_file, pc, exit_code, history, eligible,
            idx, trades, spy_returns, entry_price, exit_price, pct_return,
            won, result, calls, exit_answers, setting, trace, seen, lookup,
            memo, first>>

\* the parser main is in, or was in when it raised
Parser == IF \/ dpc \in {"parse_opportunities", "opp_lines"}
             \/ dpc = "raised" /\ IsNone(opp)
          THEN "parse_opportunities" ELSE "parse_performance"

\* the report file the parser reads
ReportOf(parser) ==
    IF parser = "parse_opportunities" THEN opportunities_file
    ELSE performance_file

\* what the parser returns when it has read every line, lines 381-382 and
\* 430-431; the reports of the model carry none of the metadata labels, so
\* "rows" is the only key
Parsed(rs) == [rows |-> rs]

\* lines 313-314 and 387-388 reading an absent report as an empty text
OpenAbsentAsEmptyText ==
    /\ dpc \in {"parse_opportunities", "parse_performance"}
    /\ dpc' = IF dpc = "parse_opportunities" THEN "opp_lines" ELSE "perf_lines"
    /\ line_no' = 1
    /\ in_table' = FALSE
    /\ rows' = <<>>
    /\ UNCHANGED <<opportunities_file, performance_file, opp, perf, engine>>

\* lines 313-316 and 387-390, 353-354 and 405-406: the parser is called; an
\* absent report gives {} at once
Open ==
    /\ dpc \in {"parse_opportunities", "parse_performance"}
    /\ IF ~ReportOf(Parser).exists
       THEN /\ opp' = IF Parser = "parse_opportunities" THEN Some(EmptyDict) ELSE opp
            /\ perf' = IF Parser = "parse_performance" THEN Some(EmptyDict) ELSE perf
            /\ dpc' = IF Parser = "parse_opportunities" THEN "parse_performance"
                      ELSE "rendered"
            /\ UNCHANGED <<line_no, in_table, rows>>
       ELSE /\ dpc' = IF Parser = "parse_opportunities" THEN "opp_lines"
                      ELSE "perf_lines"
            /\ line_no' = 1
            /\ in_table' = FALSE
            /\ rows' = <<>>
            /\ UNCHANGED <<opp, perf>>
    /\ UNCHANGED <<opportunities_file, performance_file, engine>>

\* lines 355-380 and 407-429: one turn of the loop over the lines
ReadLine ==
    /\ dpc \in {"opp_lines", "perf_lines"}
    /\ line_no <= Len(ReportOf(Parser).lines)
    /\ LET after == Read(Parser, ReportOf(Parser).lines[line_no],
                         [in_table |-> in_table, rows |-> rows, raised |-> FALSE])
       IN  /\ in_table' = after.in_table
           /\ rows' = after.rows
           /\ dpc' = IF after.raised THEN "raised" ELSE dpc
    /\ line_no' = line_no + 1
    /\ UNCHANGED <<opportunities_file, performance_file, opp, perf, engine>>

\* lines 381-382 and 430-431
Return ==
    /\ dpc \in {"opp_lines", "perf_lines"}
    /\ line_no > Len(ReportOf(Parser).lines)
    /\ opp' = IF Parser = "parse_opportunities" THEN Some(Parsed(rows)) ELSE opp
    /\ perf' = IF Parser = "parse_performance" THEN Some(Parsed(rows)) ELSE perf
    /\ dpc' = IF Parser = "parse_opportunities" THEN "parse_performance"
              ELSE "rendered"
    /\ UNCHANGED <<opportunities_file, performance_file, line_no, in_table,
                   rows, engine>>

NextDashboard ==
    \/ Open
    \/ ReadLine
    \/ Return

\* a scan report that parses to two rows
SomeOpportunities ==
    <<"| Ticker | Sector ETF |", "|AAA|XLK|**BUY**|85|c|e|r|p|q|s|",
      "|AAA|XLK|**BUY**|85|c|e|r|p|q|s|">>

\* a performance report that parses to one row
SomePerformance ==
    <<"| Ticker | Return % |", "|AAA|d|BUY|85|1|2|+5.0%|YES|">>

\* main starts: every text of one report with the other report absent, or
\* each report absent or a fixed text and the event log absent or empty; the
\* backtest engine is not running
InitDashboard ==
    /\ results_file = NoFile
    /\ pc = "idle"
    /\ exit_code = None
    /\ history = <<>>
    /\ eligible = <<>>
    /\ idx = 1
    /\ trades = <<>>
    /\ spy_returns = <<>>
    /\ entry_price = None
    /\ exit_price = None
    /\ pct_return = None
    /\ won = None
    /\ result = None
    /\ calls = <<>>
    /\ exit_answers = <<>>
    /\ polygon_key = TRUE
    /\ market = SmallMarket
    /\ recorder = FALSE
    /\ trace = <<>>
    /\ seen = None
    /\ lookup = None
    /\ memo = [on |-> FALSE, known |-> {}]
    /\ first = None
    /\ \/ /\ history_file = File(<<>>)
          /\ opportunities_file \in {Report(t) : t \in Texts(OpportunityLines)}
          /\ performance_file = Absent
       \/ /\ history_file = File(<<>>)
          /\ opportunities_file = Absent
          /\ performance_file \in {Report(t) : t \in Texts(PerformanceLines)}
       \/ /\ history_file \in {NoFile, File(<<>>)}
          /\ opportunities_file \in {Absent, Report(SomeOpportunities)}
          /\ performance_file \in {Absent, Report(SomePerformance)}
    /\ dpc = "parse_opportunities"
    /\ line_no = 1
    /\ in_table = FALSE
    /\ rows = <<>>
    /\ opp = None
    /\ perf = None

SpecDashboard == InitDashboard /\ [][NextDashboard]_vars

----------------------------------------------------------------------------
(* Properties *)

\* the event log has been loaded and filtered
Loaded == pc \in {"loop", "fetch_exit", "benchmark", "write", "done"}

InEligible(e) == \E j \in DOMAIN eligible : eligible[j] = e

AgeOf(e) == Today - e.date

\* C1: once the log is filtered, a history entry is in the eligible list if
\* and only if its action (in any letter case) is a buy-class action, its age
\* in days is at least MIN_AGE_DAYS and its price is positive; an entry aged
\* exactly MIN_AGE_DAYS that meets the other two conditions is in, an entry
\* aged MIN_AGE_DAYS - 1 is out, and nothing else is in the list.
C1_EligibleIff ==
    Loaded =>
      /\ \A i \in DOMAIN history :
           LET e == history[i]
           IN  /\ InEligible(e) <=>
                     /\ Upper(e.action) \in BUY_ACTIONS
                     /\ AgeOf(e) >= MIN_AGE_DAYS
                     /\ e.price > 0
               /\ Upper(e.action) \notin BUY_ACTIONS => ~InEligible(e)
               /\ e.price <= 0 => ~InEligible(e)
               /\ AgeOf(e) = MIN_AGE_DAYS - 1 => ~InEligible(e)
               /\ (AgeOf(e) = MIN_AGE_DAYS /\ e.price > 0
                      /\ Upper(e.action) \in BUY_ACTIONS) => InEligible(e)
      /\ \A j \in DOMAIN eligible : \E i \in DOMAIN history : history[i] = eligible[j]

\* C1 witness: a filtered log holding a buy entry aged exactly MIN_AGE_DAYS
\* (kept) and a buy entry one day younger (dropped), both with a price
C1_Witness ==
    /\ Loaded
    /\ \E i, k \in DOMAIN history :
         /\ AgeOf(history[i]) = MIN_AGE_DAYS
         /\ InEligible(history[i])
         /\ AgeOf(history[k]) = MIN_AGE_DAYS - 1
         /\ Upper(history[k].action) \in BUY_ACTIONS
         /\ history[k].price > 0
         /\ ~InEligible(history[k])

\* the exit-price call made for eligible entry i returned a price
Resolved(i) ==
    \E k \in DOMAIN exit_answers :
        exit_answers[k].idx = i /\ ~IsNone(exit_answers[k].close)

\* the eligible entries, by position, whose exit date is strictly before
\* today and whose exit price was resolved
EvaluatedIdx ==
    SelectSeq([i \in 1..Len(eligible) |-> i],
              LAMBDA i : /\ trading_days_after(eligible[i].date, HOLD_DAYS) < Today
                         /\ Resolved(i))

\* the trades of the summary are, one for one and in log order, the
\* evaluated eligible entries
TradesExact ==
    LET ts == Val(result).trades
    IN  /\ eligible = SelectSeq(history,
                                LAMBDA e : /\ Upper(e.action) \in BUY_ACTIONS
                                           /\ AgeOf(e) >= MIN_AGE_DAYS
                                           /\ e.price > 0)
        /\ Len(ts) = Len(EvaluatedIdx)
        /\ \A k \in DOMAIN ts :
             LET e == eligible[EvaluatedIdx[k]]
             IN  /\ ts[k].ticker = e.ticker
                 /\ ts[k].date = e.date
                 /\ ts[k].action = e.action

\* C2 as stated: the trades of the summary are exactly, in event-log order
\* and without deduplication, the eligible entries whose exit date is before
\* today and whose exit price was resolved, and every trade has an entry
\* price > 0.
C2_StoredEntryPricePositive ==
    pc = "done" =>
      /\ TradesExact
      /\ \A k \in DOMAIN Val(result).trades : Val(result).trades[k].entry_price > 0

\* C2, amended: the trades of the summary are exactly, in event-log order and
\* without deduplication, the eligible entries whose exit date is before
\* today and whose exit price was resolved; every trade comes from an entry
\* whose logged price is > 0, and its stored entry_price is that price
\* rounded to two decimals, which is >= 0.
C2_TradesExact ==
    pc = "done" =>
      /\ TradesExact
      /\ \A k \in DOMAIN Val(result).trades :
           LET e == eligible[EvaluatedIdx[k]]
               t == Val(result).trades[k]
           IN  /\ e.price > 0
               /\ t.entry_price = RoundHalfEven(e.price, 10)
               /\ t.entry_price >= 0

\* C2 witness: a log of two identical entries gave two trades, and the
\* stored entry price of a trade is 0.00 (a logged price below half a cent)
C2_Witness ==
    /\ pc = "done"
    /\ Len(history) = 2
    /\ history[1] = history[2]
    /\ Len(Val(result).trades) = 2
    /\ Val(result).trades[1].entry_price = 0

\* C3: when a return is computed, pct_return = (exit - entry) / entry * 100
\* and won holds exactly when the exit price is above the entry price (the
\* return is strictly positive); the trade then recorded carries that won
\* flag, and a trade whose exit price equals its entry price is recorded
\* with won = false and is one of the losses.
C3_ReturnAndWon ==
    /\ [](pc = "benchmark" =>
            LET x == Val(exit_price)
                e == Val(entry_price)
                p == Val(pct_return)
            IN  /\ e > 0
                /\ p[2] > 0
                /\ p[1] * e = (x - e) * 100 * p[2]
                /\ Val(won) <=> x > e
                /\ x = e => Val(won) = FALSE)
    /\ [][pc = "benchmark" =>
            LET t == trades'[Len(trades')]
            IN  /\ Len(trades') = Len(trades) + 1
                /\ t.won = Val(won)
                /\ exit_price = entry_price =>
                     /\ t.won = FALSE
                     /\ Len(Losses(trades')) = Len(Losses(trades)) + 1
                     /\ Len(Wins(trades')) = Len(Wins(trades))]_vars

\* C3 witness: a trade with equal entry and exit price has been recorded as
\* a loss, after a trade with a positive return recorded as a win
C3_Witness ==
    /\ Len(trades) = 2
    /\ trades[1].won /\ trades[1].pct_return > 0
    /\ ~trades[2].won /\ trades[2].pct_return = 0
    /\ exit_price = entry_price

\* the summary returned by a completed run
Done == pc = "done"
R == Val(result)

\* C4 as stated: profit_factor is null if and only if the trade list has no
\* losing trade (won = false).
C4_NullIffNoLosingTrade ==
    Done => (IsNone(R.profit_factor) <=> \A k \in DOMAIN R.trades : R.trades[k].won)

\* C4, amended: profit_factor is null if and only if the stored returns of
\* the losing trades sum to zero, that is the list has no losing trade
\* (the empty list included) or every losing trade has a stored return of
\* 0.00; when a losing trade has a non-zero stored return, profit_factor is
\* a number.
C4_NullIffNoLoss ==
    Done =>
      /\ IsNone(R.profit_factor) <=>
           \A k \in DOMAIN R.trades : ~R.trades[k].won => R.trades[k].pct_return = 0
      /\ R.trades = <<>> => IsNone(R.profit_factor)

\* C4 witness: a winning trade and a losing trade of zero return give a null
\* profit_factor
C4_Witness ==
    /\ Done
    /\ Len(R.trades) = 2
    /\ R.trades[1].won
    /\ ~R.trades[2].won /\ R.trades[2].pct_return = 0
    /\ IsNone(R.profit_factor)

AllFourNull(r) ==
    /\ IsNone(r.win_rate)
    /\ IsNone(r.profit_factor)
    /\ IsNone(r.alpha_vs_spy)
    /\ IsNone(r.avg_return)

\* C5: every summary has data_points = len(trades); win_rate, profit_factor,
\* alpha_vs_spy and avg_return are all four null if and only if trades is
\* empty; a non-empty list has a win_rate and an avg_return; with no eligible
\* signal the run ends normally with data_points = 0 and the four nulls.
C5_DataPointsAndNulls ==
    Done =>
      /\ R.trades = trades
      /\ R.data_points = Len(R.trades)
      /\ AllFourNull(R) <=> R.trades = <<>>
      /\ R.trades # <<>> => ~IsNone(R.win_rate) /\ ~IsNone(R.avg_return)
      /\ eligible = <<>> => R.data_points = 0 /\ AllFourNull(R) /\ IsNone(exit_code)

\* C5 witness: a non-empty summary with win_rate and avg_return set while
\* profit_factor and alpha_vs_spy are null
C5_Witness ==
    /\ Done
    /\ R.data_points = 2
    /\ ~IsNone(R.win_rate) /\ ~IsNone(R.avg_return)
    /\ IsNone(R.profit_factor) /\ IsNone(R.alpha_vs_spy)

NumWon(ts) == Cardinality({k \in DOMAIN ts : ts[k].won})

\* C6: for a non-empty trade list win_rate is 100 * wins / trades rounded to
\* one decimal, lies in [0, 100], is 100.0 exactly when every trade won and
\* 0.0 exactly when none did.
C6_WinRate ==
    (Done /\ R.trades # <<>>) =>
      LET n == Len(R.trades)
          w == NumWon(R.trades)
          wr == Val(R.win_rate)
      IN  /\ 0 <= wr /\ wr <= 1000
          /\ 2 * Abs(wr * n - 1000 * w) <= n
          /\ wr = 1000 <=> w = n
          /\ wr = 0 <=> w = 0

\* C6 witness: one win out of two trades, win_rate 50.0
C6_Witness ==
    /\ Done
    /\ Len(R.trades) = 2
    /\ NumWon(R.trades) = 1
    /\ R.win_rate = Some(500)

\* sums of the stored returns of the winning and of the losing trades
StoredGain(ts) == SumPct(SelectSeq(ts, LAMBDA t : t.won))
StoredLoss(ts) == Abs(SumPct(SelectSeq(ts, LAMBDA t : ~t.won)))

\* C7 as stated: when a losing trade has a non-zero return, profit_factor is
\* the sum of the returns of the winning trades divided by the absolute sum
\* of the returns of the losing trades.
C7_ExactRatio ==
    (Done /\ \E k \in DOMAIN R.trades : ~R.trades[k].won /\ R.trades[k].pct_return # 0) =>
      /\ ~IsNone(R.profit_factor)
      /\ Val(R.profit_factor) * StoredLoss(R.trades) = 100 * StoredGain(R.trades)

\* C7, amended: when the stored returns of the losing trades do not sum to
\* zero, profit_factor is the sum of the stored returns of the winning trades
\* divided by the absolute sum of the stored returns of the losing trades,
\* rounded to two decimals; returns +20 and -10 give profit_factor 2.0 and
\* win_rate 50.0, and a list with only losing trades gives 0, not null.
C7_RoundedRatio ==
    Done =>
      /\ StoredLoss(R.trades) # 0 =>
           /\ ~IsNone(R.profit_factor)
           /\ 2 * Abs(Val(R.profit_factor) * StoredLoss(R.trades)
                      - 100 * StoredGain(R.trades)) <= StoredLoss(R.trades)
           /\ NumWon(R.trades) = 0 => R.profit_factor = Some(0)
      /\ (/\ Len(R.trades) = 2
          /\ R.trades[1].pct_return = 2000
          /\ R.trades[2].pct_return = -1000) =>
           R.profit_factor = Some(200) /\ R.win_rate = Some(500)

\* C7 witness: the two trades +20 and -10 with profit_factor 2.0 and
\* win_rate 50.0
C7_Witness ==
    /\ Done
    /\ Len(R.trades) = 2
    /\ R.trades[1].pct_return = 2000 /\ R.trades[1].won
    /\ R.trades[2].pct_return = -1000 /\ ~R.trades[2].won
    /\ R.profit_factor = Some(200)
    /\ R.win_rate = Some(500)

\* the trades whose benchmark return was resolved
WithSpy(ts) == {k \in DOMAIN ts : ~IsNone(ts[k].spy_return)}

RECURSIVE SumStoredSpy(_)
SumStoredSpy(ts) ==
    IF ts = <<>> THEN 0
    ELSE (IF IsNone(Head(ts).spy_return) THEN 0 ELSE Val(Head(ts).spy_return))
         + SumStoredSpy(Tail(ts))

\* alpha_vs_spy is null exactly when no trade has a benchmark return, and as
\* many benchmark returns are averaged as trades have one
AlphaDefined ==
    /\ IsNone(R.alpha_vs_spy) <=> WithSpy(R.trades) = {}
    /\ Len(spy_returns) = Cardinality(WithSpy(R.trades))

\* C8 as stated: alpha_vs_spy is avg_return minus the mean of the resolved
\* benchmark returns (the mean of the returns as computed, or of the
\* returns as stored in the trades), null exactly when no trade has one.
C8_ExactMean ==
    (Done /\ R.trades # <<>>) =>
      /\ AlphaDefined
      /\ ~IsNone(R.alpha_vs_spy) =>
           LET d == Val(R.avg_return) - Val(R.alpha_vs_spy)
               total == RatSum(spy_returns)
               n == Len(spy_returns)
           IN  \/ d * total[2] * n = 100 * total[1]
               \/ d * n = SumStoredSpy(R.trades)

\* C8, amended: alpha_vs_spy is avg_return (the mean of the stored returns
\* of all trades, rounded to two decimals) minus the mean, rounded to two
\* decimals, of the benchmark returns of only the trades whose benchmark
\* return was resolved; it is null exactly when no trade has a resolved
\* benchmark return, and as many benchmark returns are averaged as trades
\* have a non-null spy_return.
C8_AlphaRoundedMean ==
    (Done /\ R.trades # <<>>) =>
      /\ AlphaDefined
      /\ 2 * Abs(Val(R.avg_return) * Len(R.trades) - SumPct(R.trades)) <= Len(R.trades)
      /\ ~IsNone(R.alpha_vs_spy) =>
           LET d == Val(R.avg_return) - Val(R.alpha_vs_spy)
               total == RatSum(spy_returns)
               n == Len(spy_returns)
           IN  2 * Abs(d * total[2] * n - 100 * total[1]) <= total[2] * n

\* C8 witness: two trades, one without and one with a benchmark return, and
\* an alpha that differs from avg_return
C8_Witness ==
    /\ Done
    /\ Len(R.trades) = 2
    /\ Cardinality(WithSpy(R.trades)) = 1
    /\ ~IsNone(R.alpha_vs_spy)
    /\ Val(R.alpha_vs_spy) # Val(R.avg_return)

\* C9: the exit date of an entry is its date plus 29 days; a fetch_close
\* call is made for an entry only when that exit date is strictly before
\* today, an entry whose exit date is today or later is passed over with no
\* call, and every trade has exit_date < generated_at.
C9_ExitDate ==
    /\ \A k \in DOMAIN trades :
         /\ trades[k].exit_date = trades[k].date + 29
         /\ trades[k].exit_date < Today
    /\ \A k \in DOMAIN calls : eligible[calls[k].idx].date + 29 < Today
    /\ pc \in {"fetch_exit", "benchmark"} => eligible[idx].date + 29 < Today
    /\ Done =>
         /\ \A k \in DOMAIN R.trades : R.trades[k].exit_date < R.generated_at
         /\ \A i \in DOMAIN eligible :
              eligible[i].date + 29 >= Today =>
                 /\ \A k \in DOMAIN calls : calls[k].idx # i
                 /\ \A k \in DOMAIN exit_answers : exit_answers[k].idx # i

\* C9 witness: a completed run that passed over an entry whose exit date is
\* today and recorded a trade whose exit date was yesterday
C9_Witness ==
    /\ Done
    /\ Len(eligible) = 2
    /\ eligible[1].date + 29 = Today
    /\ Len(R.trades) = 1
    /\ R.trades[1].exit_date = Today - 1
    /\ \A k \in DOMAIN calls : calls[k].idx = 2

\* C10: with the event log absent the run does nothing but exit with status
\* 1: no entry is loaded or examined, no fetch_close call is made, no result
\* is produced, and the results file is neither created nor modified.
C10_MissingLogAborts ==
    /\ [](~history_file.exists =>
            /\ pc \in {"start", "exited"}
            /\ history = <<>> /\ eligible = <<>> /\ trades = <<>>
            /\ calls = <<>> /\ exit_answers = <<>>
            /\ IsNone(result)
            /\ pc = "exited" => exit_code = Some(1))
    /\ [][~history_file.exists =>
            /\ results_file' = results_file
            /\ pc = "start" => pc' = "exited"]_vars

\* C10 witness: the run has exited with status 1 and the results file of an
\* earlier run is still in place
C10_Witness ==
    /\ pc = "exited"
    /\ ~history_file.exists
    /\ exit_code = Some(1)
    /\ results_file = File(PriorSummary)

\* C11: a present event log never makes run_backtest fail: whatever keys its
\* records lack and whatever null or text they hold for price or score, no
\* exception is raised and the run goes on until the results file is written.
C11_PresentLogNeverFails ==
    history_file.exists =>
      /\ pc # "raised"
      /\ IsNone(exit_code)
      /\ pc # "done" => ENABLED Next

\* the fetch_close calls made for eligible entry i
CallsFor(i) == {j \in DOMAIN calls : calls[j].idx = i}

\* the exit-price calls that returned None / a price
UnresolvedExits == {k \in DOMAIN exit_answers : IsNone(exit_answers[k].close)}
ResolvedExits == DOMAIN exit_answers \ UnresolvedExits

\* C12: an eligible signal whose exit-price lookup returns None is skipped:
\* exactly one fetch_close call is ever made for it (the exit-price call for
\* its ticker, none for the benchmark), no trade is appended for it, and it
\* enters no metric: the trades, and the data_points of the summary, count
\* only the signals whose exit price was resolved.
C12_UnresolvedExitSkipped ==
    /\ \A k \in UnresolvedExits :
         LET i == exit_answers[k].idx
         IN  /\ Cardinality(CallsFor(i)) = 1
             /\ \A j \in CallsFor(i) :
                  /\ calls[j].ticker = eligible[i].ticker
                  /\ calls[j].date = trading_days_after(eligible[i].date, HOLD_DAYS)
             /\ idx > i
    /\ Len(trades) = Cardinality(ResolvedExits) - (IF pc = "benchmark" THEN 1 ELSE 0)
    /\ Len(spy_returns) <= Len(trades)
    /\ Done => /\ R.trades = trades
               /\ R.data_points = Cardinality(ResolvedExits)
               /\ (UnresolvedExits # {} /\ ResolvedExits = {}) => AllFourNull(R)

\* C12 witness: of two evaluated signals the first got no exit price and the
\* second did; the summary holds one trade and four calls were made
C12_Witness ==
    /\ Done
    /\ Len(exit_answers) = 2
    /\ IsNone(exit_answers[1].close)
    /\ ~IsNone(exit_answers[2].close)
    /\ Cardinality(CallsFor(1)) = 1
    /\ Cardinality(CallsFor(2)) = 3
    /\ R.data_points = 1

\* the recorded benchmark calls made for eligible entry i
SpyRecords(i) ==
    {j \in DOMAIN trace : trace[j].call.idx = i /\ trace[j].call.ticker = "SPY"}

\* one of the benchmark calls made for eligible entry i returned None
BenchmarkUnresolved(i) == \E j \in SpyRecords(i) : IsNone(trace[j].result)

\* the eligible entries, by position, whose exit price was resolved and
\* whose iteration is over
Completed ==
    {exit_answers[k].idx : k \in {n \in ResolvedExits : exit_answers[n].idx < idx}}

\* the position in `trades` of the trade of eligible entry i
Rank(i) == Cardinality({k \in ResolvedExits : exit_answers[k].idx <= i})

\* C13: a signal whose exit price was resolved is recorded as a trade even
\* when a benchmark lookup (entry or exit) returned None: the trade has
\* spy_return null, it counts in data_points, win_rate, avg_return and
\* profit_factor like any other trade, and it adds nothing to the list of
\* benchmark returns that is averaged.
C13_TradeWithoutBenchmark ==
    recorder =>
      /\ \A i \in Completed :
           /\ Cardinality(SpyRecords(i)) = 2
           /\ Rank(i) <= Len(trades)
           /\ trades[Rank(i)].ticker = eligible[i].ticker
           /\ trades[Rank(i)].date = eligible[i].date
           /\ BenchmarkUnresolved(i) => IsNone(trades[Rank(i)].spy_return)
      /\ Len(trades) = Cardinality(Completed)
      /\ Len(spy_returns) = Cardinality(WithSpy(trades))
      /\ Len(spy_returns) <= Cardinality({i \in Completed : ~BenchmarkUnresolved(i)})
      /\ (Done /\ trades # <<>>) =>
           LET n == Len(R.trades)
           IN  /\ R.trades = trades
               /\ R.data_points = Cardinality(Completed)
               /\ 2 * Abs(Val(R.win_rate) * n - 1000 * NumWon(R.trades)) <= n
               /\ R.avg_return = Some(RoundHalfEven(SumPct(R.trades), n))
               /\ StoredLoss(R.trades) > 0 =>
                    R.profit_factor =
                      Some(RoundHalfEven(StoredGain(R.trades) * 100,
                                         StoredLoss(R.trades)))
               /\ IsNone(R.alpha_vs_spy) <=> WithSpy(R.trades) = {}

\* C13 witness: two trades; the first lost and has no benchmark return
\* because a benchmark lookup failed, the second won and has one; the
\* summary counts both and has a profit factor and an alpha
C13_Witness ==
    /\ recorder
    /\ Done
    /\ Len(R.trades) = 2
    /\ Completed = {1, 2}
    /\ BenchmarkUnresolved(1)
    /\ IsNone(R.trades[1].spy_return)
    /\ ~R.trades[1].won
    /\ ~BenchmarkUnresolved(2)
    /\ ~IsNone(R.trades[2].spy_return)
    /\ R.data_points = 2
    /\ R.win_rate = Some(500)
    /\ ~IsNone(R.profit_factor)
    /\ ~IsNone(R.alpha_vs_spy)
    /\ Len(spy_returns) = 1

\* the recorded call j sent a request that ended with a non-200 status /
\* with a transport error
BadStatus(j) == \E n \in DOMAIN trace[j].events : trace[j].events[n] = "status"
TransportError(j) == \E n \in DOMAIN trace[j].events : trace[j].events[n] = "error"

\* the latest recorded call failed
LastFailed ==
    trace # <<>> /\ (BadStatus(Len(trace)) \/ TransportError(Len(trace)))

\* C14: a price request that ends with a non-200 status or with a transport
\* error makes fetch_close return None and nothing more: no exception leaves
\* the run, which never ends early: after a failed call the loop goes on to
\* the next signal or to the summary, a reached call or write can be made,
\* and the finished run has its summary in the results file.
C14_FailedRequestIsAbsent ==
    (recorder /\ history_file.exists) =>
      /\ \A j \in DOMAIN trace :
           (BadStatus(j) \/ TransportError(j)) => IsNone(trace[j].result)
      /\ pc \in {"start", "loop", "fetch_exit", "benchmark", "write", "done"}
      /\ IsNone(exit_code)
      /\ (pc = "loop" /\ LastFailed) => ENABLED (NextEntry \/ Finish)
      /\ pc = "fetch_exit" => ENABLED FetchExit
      /\ pc = "benchmark" => ENABLED Benchmark
      /\ pc = "write" => ENABLED WriteResults
      /\ Done => results_file = File(R)

\* C14 witness: a finished run whose first signal lost its exit price to a
\* transport error, whose second signal was then evaluated although a
\* benchmark request got a non-200 status, and whose summary is on disk
C14_Witness ==
    /\ recorder
    /\ Done
    /\ results_file = File(R)
    /\ Len(trace) = 4
    /\ TransportError(1)
    /\ trace[1].call.idx = 1
    /\ trace[2].call.idx = 2
    /\ ~IsNone(trace[2].result)
    /\ BadStatus(3)
    /\ R.data_points = 1

\* the recorded call j sent a request to the provider
SentRequest(j) == \E n \in DOMAIN trace[j].events : trace[j].events[n] = "request"

\* C15: without a provider key no request is ever sent and every fetch_close
\* call returns None; no trade is made, the run goes on to its end, and the
\* summary it writes to the results file has data_points 0, no trades and the
\* four metrics null.
C15_NoKeyNoRequests ==
    (recorder /\ ~polygon_key) =>
      /\ \A j \in DOMAIN trace : ~SentRequest(j) /\ IsNone(trace[j].result)
      /\ Len(trace) = Len(calls)
      /\ \A k \in DOMAIN exit_answers : IsNone(exit_answers[k].close)
      /\ trades = <<>>
      /\ pc \notin {"benchmark", "raised"}
      /\ (history_file.exists /\ pc # "done") => ENABLED Next
      /\ Done => /\ R.data_points = 0
                 /\ R.trades = <<>>
                 /\ AllFourNull(R)
                 /\ results_file = File(R)

\* C15 witness: a finished run without a key that asked for two exit prices,
\* sent nothing, and replaced the earlier results file by the empty summary
C15_Witness ==
    /\ recorder
    /\ ~polygon_key
    /\ Done
    /\ Len(trace) = 2
    /\ Len(eligible) = 2
    /\ \A j \in DOMAIN trace : ~SentRequest(j)
    /\ R.data_points = 0
    /\ results_file = File(R)
    /\ results_file # File(PriorSummary)

\* the three conditions of the filter
PassesFilter(e) ==
    /\ Upper(e.action) \in BUY_ACTIONS
    /\ AgeOf(e) >= MIN_AGE_DAYS
    /\ e.price > 0

\* C16: the filter is applied to the whole event log before the first
\* fetch_close call: no call is made before the log is filtered, the eligible
\* list is by then the filtered log and no call changes it, and every call is
\* made for an entry of the log that passes the filter (for its ticker or the
\* benchmark, at its signal date or its exit date).
C16_FilterBeforeRequests ==
    /\ [](/\ ~Loaded => calls = <<>>
          /\ Loaded => /\ history = Val(history_file.content)
                       /\ eligible = SelectSeq(history, PassesFilter)
          /\ \A j \in DOMAIN calls :
               /\ calls[j].idx \in DOMAIN eligible
               /\ calls[j].idx <= idx
               /\ LET e == eligible[calls[j].idx]
                  IN  /\ PassesFilter(e)
                      /\ \E i \in DOMAIN history : history[i] = e
                      /\ calls[j].ticker \in {e.ticker, "SPY"}
                      /\ calls[j].date \in
                           {e.date, trading_days_after(e.date, HOLD_DAYS)})
    /\ [][calls' # calls =>
            /\ Loaded
            /\ eligible' = eligible
            /\ history' = history]_vars

\* C16 witness: a log whose first entry fails the filter and whose second
\* passes it; calls were made, all of them for the second
C16_Witness ==
    /\ Len(history) = 2
    /\ ~PassesFilter(history[1])
    /\ PassesFilter(history[2])
    /\ Len(calls) = 3
    /\ \A j \in DOMAIN calls : eligible[calls[j].idx] = history[2]

\* the recorded calls made for eligible entry i that sent a request
RequestsFor(i) == {j \in DOMAIN trace : trace[j].call.idx = i /\ SentRequest(j)}

\* C17 as stated: each eligible signal causes at most two network requests,
\* one for its ticker and one for the benchmark ticker.
C17_AtMostTwoRequests ==
    recorder =>
      \A i \in DOMAIN eligible :
        /\ Cardinality(RequestsFor(i)) <= 2
        /\ Cardinality({j \in RequestsFor(i) : trace[j].call.ticker = "SPY"}) <= 1

\* C17, amended: each eligible signal causes at most three fetch_close calls
\* and so at most three network requests, in this order: one for its ticker
\* at the exit date, then, only when that one returned a price, two for the
\* benchmark ticker, at the signal date and at the exit date.
C17_AtMostThreeRequests ==
    recorder =>
      /\ Len(trace) = Len(calls)
      /\ \A j \in DOMAIN trace : trace[j].call = calls[j]
      /\ \A i \in DOMAIN eligible :
           LET e == eligible[i]
               own == {j \in CallsFor(i) : calls[j].ticker = e.ticker}
               spy == {j \in CallsFor(i) : calls[j].ticker = "SPY"}
           IN  /\ Cardinality(CallsFor(i)) <= 3
               /\ Cardinality(RequestsFor(i)) <= Cardinality(CallsFor(i))
               /\ CallsFor(i) = own \cup spy
               /\ Cardinality(own) <= 1
               /\ Cardinality(spy) \in {0, 2}
               /\ \A j \in own :
                    calls[j].date = trading_days_after(e.date, HOLD_DAYS)
               /\ spy # {} =>
                    \E j \in own :
                       /\ ~IsNone(trace[j].result)
                       /\ spy = {j + 1, j + 2}
                       /\ calls[j + 1].date = e.date
                       /\ calls[j + 2].date = trading_days_after(e.date, HOLD_DAYS)

\* C17 witness: three requests were sent for one signal, two of them for
\* the benchmark ticker
C17_Witness ==
    /\ recorder
    /\ \E i \in DOMAIN eligible :
         /\ Cardinality(RequestsFor(i)) = 3
         /\ Cardinality({j \in RequestsFor(i) : trace[j].call.ticker = "SPY"}) = 2

\* the events of all recorded calls, in order
RECURSIVE Flatten(_)
Flatten(tr) == IF tr = <<>> THEN <<>> ELSE Head(tr).events \o Flatten(Tail(tr))

AllEvents == Flatten(trace)

Count(ev, x) == Cardinality({n \in DOMAIN ev : ev[n] = x})

\* a request is over as soon as the next event: nothing else is sent while
\* it is in flight
OneAtATime(ev) ==
    \A n \in DOMAIN ev :
       ev[n] = "request" =>
          /\ n + 1 \in DOMAIN ev
          /\ ev[n + 1] \in {"reply", "status", "error"}

\* between two requests there is a pause
PauseBetween(ev) ==
    \A m, n \in DOMAIN ev :
       (m < n /\ ev[m] = "request" /\ ev[n] = "request") =>
          \E k \in m + 1 .. n - 1 : ev[k] = "sleep"

\* C18 as stated: every fetch_close call sends one request to the provider
\* and then pauses before it returns.
C18_OneRequestPerCall ==
    recorder =>
      \A j \in DOMAIN trace :
         LET ev == trace[j].events
         IN  /\ Count(ev, "request") = 1
             /\ ev[Len(ev)] = "sleep"

\* C18, amended: every fetch_close call sends at most one request to the
\* provider - exactly one when a key is configured, none when it is not - and
\* pauses once, as its last act, whether the request succeeded, failed or was
\* not sent; no request is sent while another is in flight and between any
\* two requests there is a pause.
C18_AtMostOneRequestThenPause ==
    recorder =>
      /\ \A j \in DOMAIN trace :
           LET ev == trace[j].events
           IN  /\ Count(ev, "request") = (IF polygon_key THEN 1 ELSE 0)
               /\ Count(ev, "sleep") = 1
               /\ ev[Len(ev)] = "sleep"
      /\ Len(trace) = Len(calls)
      /\ OneAtATime(AllEvents)
      /\ PauseBetween(AllEvents)

\* C18 witness: with a key, three calls in a row - a transport error, a
\* non-200 status and a 200 reply - each one request followed by a pause
C18_Witness ==
    /\ recorder
    /\ polygon_key
    /\ Len(trace) >= 3
    /\ \E j \in DOMAIN trace :
         /\ j + 2 \in DOMAIN trace
         /\ trace[j].events = <<"request", "reply", "sleep">>
         /\ trace[j + 1].events = <<"request", "error", "warn", "sleep">>
         /\ trace[j + 2].events = <<"request", "status", "warn", "sleep">>
    /\ Count(AllEvents, "request") = Count(AllEvents, "sleep")

\* the days of the window of the call on which the provider holds a bar
InWindow == {d \in lookup.bars : lookup.target <= d /\ d <= lookup.target + 10}

\* the close of the earliest bar of the window, None when it holds none
EarliestInWindow ==
    IF InWindow = {} THEN None
    ELSE Some(CloseOn(CHOOSE d \in InWindow : \A x \in InWindow : d <= x))

\* C19 as stated: fetch_close returns the close of the earliest daily bar the
\* provider holds in [target_date, target_date + 10 days], and None when it
\* holds no bar there.
C19_EarliestBarInWindow ==
    pc = "returned" => lookup.close = EarliestInWindow

\* C19, amended: when the request is answered with status 200, fetch_close
\* returns the close of the earliest daily bar the provider holds in
\* [target_date, target_date + 10 days], and None when it holds no bar there;
\* when the request is not sent or fails it returns None; it never returns
\* the close of a bar dated before target_date or after the window end.
C19_EarliestBarWhenAnswered ==
    pc = "returned" =>
      /\ lookup.kind = "ok" => lookup.close = EarliestInWindow
      /\ lookup.kind # "ok" => IsNone(lookup.close)
      /\ ~IsNone(lookup.close) =>
           \E d \in InWindow : lookup.close = Some(CloseOn(d))
      /\ \A d \in lookup.bars \ InWindow : lookup.close # Some(CloseOn(d))

\* C19 witness: the provider holds bars the day before the target date, the
\* day after it and past the window end, none on the target date; the call
\* returned the close of the day after
C19_Witness ==
    /\ pc = "returned"
    /\ lookup.kind = "ok"
    /\ lookup.bars = {Target - 1, Target + 1, Target + 11}
    /\ lookup.close = Some(CloseOn(Target + 1))

\* C20: whenever the dashboard loads the results file during a run it finds
\* a complete summary: the file as it was before the run, when there was one,
\* or the summary of this run - never a file that is empty or cut short.
C20_ReaderSeesCompleteSummary ==
    ~IsNone(seen) =>
      LET s == Val(seen)
      IN  /\ s.file.exists => ~IsNone(s.file.content)
          /\ s.file \in {NoFile, File(PriorSummary)} \cup
                        (IF IsNone(result) THEN {} ELSE {File(R)})
          /\ s.file.exists => s.loaded = Val(s.file.content)

\* C21: the results file changes only in the sink step (_write), which is
\* taken once, after the loop, and after which the run changes nothing more:
\* loading the log and evaluating the signals leave the file as it was, and
\* the finished run's file holds exactly the returned summary (empty or not)
\* and nothing of what it held before.
C21_WrittenOnceAtTheEnd ==
    /\ [](/\ pc \in {"start", "exited", "raised"} => IsNone(result)
          /\ Done => /\ results_file = File(R)
                     /\ R = Summary(trades, spy_returns)
                     /\ R.trades = <<>> => R = EmptySummary)
    /\ [][/\ results_file' # results_file =>
               \/ pc = "loop" /\ idx > Len(eligible) /\ pc' = "write"
               \/ pc = "write" /\ pc' = "done"
          /\ pc = "loop" /\ pc' = "write" => results_file' = Truncated
          /\ pc = "write" =>
               /\ pc' = "done"
               /\ results_file' = File(Val(result))
               /\ result' = result
          /\ pc' = "done" => pc = "write"
          /\ pc # "done"]_vars

\* C21 witness: a finished run with two trades whose summary has replaced
\* the file of the earlier run
C21_Witness ==
    /\ Done
    /\ R.data_points = 2
    /\ results_file = File(R)
    /\ results_file # File(PriorSummary)

\* C22: a second run on the same event log, with the same today and a
\* provider that answers each (ticker, date) request as it did before, returns
\* the same summary as the first run and leaves the same results file,
\* although it started with the first run's file on disk.
C22_SecondRunSameOutput ==
    ~IsNone(first) =>
      /\ Done => /\ R = Val(first).result
                 /\ results_file = Val(first).file
      /\ pc \in {"start", "loop", "fetch_exit", "benchmark"} =>
           results_file = Val(first).file
      /\ \A m, n \in memo.known :
           (m.ticker = n.ticker /\ m.date = n.date) => m = n

\* C22 witness: the second run has finished; it made three calls, recorded
\* one trade, and started from a results file that was not the one the first
\* run started from
C22_Witness ==
    /\ ~IsNone(first)
    /\ Done
    /\ Len(calls) = 3
    /\ R.data_points = 1
    /\ R = Val(first).result
    /\ Val(first).file # File(PriorSummary)

\* the text the running parser reads, each line stripped as line 356 does
Lines(parser) ==
    [k \in DOMAIN ReportOf(parser).lines |->
        Strip(ReportOf(parser).lines[k], Whitespace)]

\* InTable when line k is read: a header line came before, and every line
\* between that header and line k either starts with '|' or is a header
InTableAt(parser, k) ==
    \E j \in 1..(k - 1) :
        /\ IsHeader(parser, Lines(parser)[j])
        /\ \A m \in (j + 1)..(k - 1) :
               \/ StartsWith(Lines(parser)[m], "|")
               \/ IsHeader(parser, Lines(parser)[m])

\* line k is a row of the table: read while InTable, starting with '|',
\* neither a header nor a separator rule
IsTableRow(parser, k) ==
    /\ InTableAt(parser, k)
    /\ ~IsHeader(parser, Lines(parser)[k])
    /\ ~IsSeparatorRule(Lines(parser)[k])
    /\ StartsWith(Lines(parser)[k], "|")

\* a row with the cells its table requires
WellFormed(parser, k) == Len(Cells(Lines(parser)[k])) >= MinCells(parser)

\* the records of the well-formed table rows among the first n lines, in order
RECURSIVE RowsUpTo(_, _)
RowsUpTo(parser, n) ==
    IF n = 0 THEN <<>>
    ELSE RowsUpTo(parser, n - 1) \o
         (IF IsTableRow(parser, n) /\ WellFormed(parser, n)
          THEN <<Row(parser, Cells(Lines(parser)[n]),
                     Val(Number(parser, Cells(Lines(parser)[n])).value))>>
          ELSE <<>>)

InLoop == dpc \in {"opp_lines", "perf_lines"}

\* C23: table extraction is the machine Seeking / InTable: Seeking before the
\* first line; InTable is entered exactly on a header line, kept across a
\* separator rule, which gives no row, and left on a line that does not
\* start with '|'; a row is added only for a line read while InTable, so
\* lines read while Seeking give no rows.
C23_SeekingInTable ==
    /\ [](InLoop => in_table = InTableAt(Parser, line_no))
    /\ [][(InLoop /\ line_no' = line_no + 1) =>
            LET line == Lines(Parser)[line_no]
            IN  /\ line_no = 1 => ~in_table
                /\ IsHeader(Parser, line) => in_table' /\ rows' = rows
                /\ (~in_table /\ in_table') => IsHeader(Parser, line)
                /\ (in_table /\ IsSeparatorRule(line)) => in_table' /\ rows' = rows
                /\ (in_table /\ ~in_table') => ~StartsWith(line, "|")
                /\ (in_table /\ ~StartsWith(line, "|") /\ ~IsHeader(Parser, line))
                     => ~in_table'
                /\ ~in_table => rows' = rows
                /\ rows' # rows => /\ in_table
                                   /\ in_table'
                                   /\ Len(rows') = Len(rows) + 1
                                   /\ SubSeq(rows', 1, Len(rows)) = rows]_vars

\* C23 witness: the parser found the table, read one row from it, left it
\* on a line without '|', and then read a row-like line that gave no row
C23_Witness ==
    /\ dpc = "opp_lines"
    /\ line_no = 5
    /\ ~in_table
    /\ Len(rows) = 1
    /\ InTableAt(Parser, 3)
    /\ ~StartsWith(Lines(Parser)[3], "|")
    /\ WellFormed(Parser, 4)
    /\ StartsWith(Lines(Parser)[4], "|")

\* C24: a table row with fewer cells than the table requires (10, 8) raises
\* nothing, gives no record and does not end the table: at every point of
\* the loop, and in what the parser returns, the rows are exactly the records
\* of the well-formed table rows read so far, in order.
C24_ShortRowSkipped ==
    /\ (InLoop \/ dpc = "raised") => in_table = InTableAt(Parser, line_no)
    /\ InLoop => rows = RowsUpTo(Parser, line_no - 1)
    /\ dpc = "raised" => /\ IsTableRow(Parser, line_no - 1)
                         /\ WellFormed(Parser, line_no - 1)
    /\ (~IsNone(opp) /\ opportunities_file.exists) =>
         Val(opp).rows = RowsUpTo("parse_opportunities",
                                  Len(opportunities_file.lines))
    /\ (~IsNone(perf) /\ performance_file.exists) =>
         Val(perf).rows = RowsUpTo("parse_performance",
                                   Len(performance_file.lines))

\* C24 witness: parse_opportunities returned two rows from a table whose
\* second row, between them, was too short
C24_Witness ==
    /\ ~IsNone(opp)
    /\ Len(opportunities_file.lines) = 4
    /\ IsTableRow("parse_opportunities", 3)
    /\ ~WellFormed("parse_opportunities", 3)
    /\ Len(Val(opp).rows) = 2
    /\ Val(opp).rows[1].Ticker = "AAA"
    /\ Val(opp).rows[2].Ticker = "BBB"

\* C25: extracting the number of a table cell (Score, Return %) never
\* raises; an unparsable cell gives 0.
C25_NumericCellNeverRaises == dpc # "raised"

\* what a parser returns for a report file
ParseResult(parser) ==
    IF ~ReportOf(parser).exists THEN EmptyDict
    ELSE Parsed(RowsUpTo(parser, Len(ReportOf(parser).lines)))

C27_MissingKeyLoggedOnce ==
    (recorder /\ ~polygon_key) =>
       Count(AllEvents, "warn") = IF trace = <<>> THEN 0 ELSE 1

\* the close the exit-price call of eligible entry i returned
ExitClose(i) ==
    LET k == CHOOSE j \in DOMAIN exit_answers :
                 exit_answers[j].idx = i /\ ~IsNone(exit_answers[j].close)
    IN  Val(exit_answers[k].close)

\* C28 as stated: in the results file written, won is true if and only if
\* the stored, rounded pct_return is strictly greater than 0, so no trade
\* has won = true and pct_return = 0.0.
C28_WonIffStoredPositive ==
    Done => /\ results_file = File(R)
            /\ \A k \in DOMAIN R.trades :
                 R.trades[k].won <=> R.trades[k].pct_return > 0

\* C28, amended: in the results file written, won is true if and only if
\* the return before rounding is strictly greater than 0 (the exit price is
\* above the entry price); the stored pct_return is that return rounded to
\* two decimals, so a stored pct_return > 0 goes with won = true and a
\* stored pct_return < 0 with won = false, while a stored 0.0 goes with
\* either; the wins and losses behind win_rate and profit_factor are the
\* trades with won = true and won = false.
C28_WonIffReturnPositive ==
    Done =>
      /\ results_file = File(R)
      /\ Len(R.trades) = Len(EvaluatedIdx)
      /\ \A k \in DOMAIN R.trades :
           LET t == R.trades[k]
               e == eligible[EvaluatedIdx[k]].price
               x == ExitClose(EvaluatedIdx[k])
           IN  /\ t.won <=> x > e
               /\ 2 * Abs(t.pct_return * e - (x - e) * 10000) <= e
               /\ t.pct_return > 0 => t.won
               /\ t.pct_return < 0 => ~t.won
      /\ R.trades # <<>> =>
           /\ 2 * Abs(Val(R.win_rate) * Len(R.trades) - 1000 * NumWon(R.trades))
                <= Len(R.trades)
           /\ IsNone(R.profit_factor) <=>
                SumPct(SelectSeq(R.trades, LAMBDA t : ~t.won)) = 0

\* C28 witness: a results file with a trade that won by a mill and is stored
\* with pct_return 0.0, counted as a win
C28_Witness ==
    /\ Done
    /\ results_file = File(R)
    /\ Len(R.trades) = 1
    /\ R.trades[1].won
    /\ R.trades[1].pct_return = 0
    /\ R.win_rate = Some(1000)

\* what the benchmark lookup at the signal date of eligible entry i returned
SpyEntry(i) ==
    LET j == CHOOSE n \in SpyRecords(i) : trace[n].call.date = eligible[i].date
    IN  trace[j].result

\* C29: no run divides by zero: a return is computed on an entry price > 0
\* only; a benchmark return is computed only when the benchmark entry price
\* is there and is not 0 (a price of 0 leaves the trade's benchmark return
\* null); win_rate and avg_return are computed for a non-empty trade list
\* only, profit_factor when the gross loss is > 0 only, the benchmark average
\* when there is a benchmark return only; in every other case the value is
\* null, and no run ends in an exception.
C29_NoZeroDenominator ==
    recorder =>
      /\ pc # "raised"
      /\ exit_code = Some(1) => ~history_file.exists
      /\ pc = "benchmark" => Val(entry_price) > 0 /\ Val(pct_return)[2] > 0
      /\ \A k \in DOMAIN spy_returns : spy_returns[k][2] > 0
      /\ \A i \in Completed :
           LET t == trades[Rank(i)]
           IN  /\ (IsNone(SpyEntry(i)) \/ SpyEntry(i) = Some(0)) => IsNone(t.spy_return)
               /\ ~IsNone(t.spy_return) => Val(SpyEntry(i)) > 0
      /\ Len(spy_returns) = Cardinality(WithSpy(trades))
      /\ Done =>
           /\ R.trades = trades
           /\ R.trades = <<>> => AllFourNull(R)
           /\ R.trades # <<>> => ~IsNone(R.win_rate) /\ ~IsNone(R.avg_return)
           /\ IsNone(R.profit_factor) <=> StoredLoss(R.trades) = 0
           /\ IsNone(R.alpha_vs_spy) <=> spy_returns = <<>>

\* C29 witness: a winning trade whose benchmark entry price came back as 0:
\* no benchmark return, no alpha, no profit factor
C29_Witness ==
    /\ recorder
    /\ Done
    /\ Len(R.trades) = 1
    /\ SpyEntry(1) = Some(0)
    /\ IsNone(R.trades[1].spy_return)
    /\ R.trades[1].won
    /\ IsNone(R.profit_factor)
    /\ IsNone(R.alpha_vs_spy)
    /\ ~IsNone(R.win_rate)

\* the eligible entries, by position, whose exit date is in the past
PastExit == {i \in DOMAIN eligible :
                trading_days_after(eligible[i].date, HOLD_DAYS) < Today}

\* C30: on a well-formed log, with a provider whose every request returns,
\* the run ends: the loop visits the eligible signals one after the other in
\* log order, each once; benchmark lookups for a signal are made only after
\* its exit price was resolved; at most 3 fetch_close calls are made per
\* eligible signal whose exit date is in the past; and the run reaches the
\* write of the results file.
C30_Terminates ==
    /\ [](/\ pc # "raised"
          /\ Loaded => /\ idx \in 1..(Len(eligible) + 1)
                       /\ \A j, k \in DOMAIN calls :
                            j < k => calls[j].idx <= calls[k].idx
                       /\ \A j \in DOMAIN calls :
                            /\ calls[j].idx \in PastExit
                            /\ calls[j].idx <= idx
                            /\ calls[j].ticker = "SPY" =>
                                 /\ Resolved(calls[j].idx)
                                 /\ \E k \in 1..(j - 1) :
                                      /\ calls[k].idx = calls[j].idx
                                      /\ calls[k].ticker = eligible[calls[j].idx].ticker
                       /\ \A i \in DOMAIN eligible :
                            /\ Cardinality(CallsFor(i)) <= 3
                            /\ Cardinality({k \in DOMAIN exit_answers :
                                              exit_answers[k].idx = i})
                                 = IF i \in PastExit /\ (i < idx \/ (i = idx /\ pc = "benchmark"))
                                   THEN 1 ELSE 0
                       /\ Len(calls) <= 3 * Cardinality(PastExit)
                       /\ pc \in {"write", "done"} => idx = Len(eligible) + 1)
    /\ [][/\ idx' \in {idx, idx + 1}
          /\ Len(calls') >= Len(calls)
          /\ SubSeq(calls', 1, Len(calls)) = calls
          /\ pc # "done"]_vars
    /\ (history_file.exists ~> Done)

\* C30 witness: a finished run over two eligible signals whose exit dates
\* are in the past, six fetch_close calls made
C30_Witness ==
    /\ Done
    /\ Len(eligible) = 2
    /\ PastExit = {1, 2}
    /\ Len(calls) = 6
    /\ results_file = File(R)

====
